---- MODULE Spec2Model ----
(***************************************************************************)
(* Event derivation of tracee: the derivation Table (Register,            *)
(* DeriveEvent) and the builders of derive functions (deriveSingleEvent,  *)
(* deriveMultipleEvents, buildDerivedEvent) of pkg/events/derive.          *)
(*                                                                         *)
(* Go slices are references: an event record holds, for Args,              *)
(* StackAddresses and MatchedPolicies, the address of a backing array in   *)
(* mem (0 is the nil slice), so that a shallow copy of an event shares the *)
(* arrays of the original until the code replaces them.                    *)
(*                                                                         *)
(* The buffer decoder (EbpfDecoder) is a second state machine: a buffer,   *)
(* a cursor and a type-decoder table, moved by the decode methods,         *)
(* MoveCursor and SetBuffer. A runtime panic is the error value Panic.     *)
(* Numbers of one or two bytes are integers; those of four and eight bytes *)
(* are functions from the exponent to the base-256 digit, signed ones a    *)
(* sign and a magnitude.                                                   *)
(***************************************************************************)
EXTENDS Integers, Sequences, FiniteSets, TLC

\* ------------------------------------------------------------------ bounds

\* Longest MatchedPolicies list a base event carries.
MaxPolicies == 2

\* In-place writes a later pipeline stage makes after one DeriveEvent call.
MaxMutations == 1

\* ------------------------------------------------------- event identifiers

testEventID == 1
failEventID == 11
deriveEventID == 12
noDerivationEventID == 13

\* Identifiers a base event may carry; 3 is never a deriveFrom of Register.
BaseIDs == {testEventID, 2, 3}

TargetIDs == {failEventID, deriveEventID, noDerivationEventID}

\* ------------------------------------------------------------------ errors

NoError == [kind |-> "nil"]

RuleError(msg) == [kind |-> "RuleError", msg |-> msg]

alreadyRegisteredError(deriveFrom, deriveTo) ==
    [kind |-> "AlreadyRegistered", from |-> deriveFrom, to |-> deriveTo]

unexpectedArgCountError(name, expected, given) ==
    [kind |-> "UnexpectedArgumentCount", name |-> name,
     expected |-> expected, given |-> given]

deriveError(id, err) == [kind |-> "DeriveError", id |-> id, err |-> err]

\* ------------------------------------------------------------------ memory

\* The contents a slice refers to: the nil slice has none.
Contents(m, a) ==
    IF a = 0 THEN [nil |-> TRUE, elems |-> <<>>]
             ELSE [nil |-> FALSE, elems |-> m[a]]

\* make(...): a fresh backing array, at the lowest address not in use.
Alloc(m, elems) ==
    LET a == CHOOSE x \in 1..(Cardinality(DOMAIN m) + 1) : x \notin DOMAIN m
    IN  [mem |-> m @@ (a :> elems), addr |-> a]

EmptyMem == [a \in {} |-> <<>>]

\* ------------------------------------------------------------------ events

\* trace.Event{}: the zero value.
ZeroEvent ==
    [EventID |-> 0, EventName |-> "", Timestamp |-> 0, ProcessID |-> 0,
     ProcessName |-> "", PoliciesVersion |-> 0, ArgsNum |-> 0,
     ReturnValue |-> 0, StackAddresses |-> 0, Args |-> 0,
     MatchedPolicies |-> 0]

PolicyNames == <<"policy1", "policy2", "policy3", "policy4">>

\* The base event of the tests, with the identifier id and a MatchedPolicies
\* list of n names (n = -1: the nil list), and the memory that holds it.
getTestEvent(id, n) ==
    LET a1 == Alloc(EmptyMem,
                    <<[ArgMeta |-> [Name |-> "test-arg", Type |-> "int"],
                       Value |-> 1111]>>)
        a2 == Alloc(a1.mem, <<4444>>)
        a3 == IF n < 0 THEN [mem |-> a2.mem, addr |-> 0]
                       ELSE Alloc(a2.mem, SubSeq(PolicyNames, 1, n))
    IN  [event |-> [EventID |-> id, EventName |-> "test_event",
                    Timestamp |-> 100000, ProcessID |-> 13,
                    ProcessName |-> "test", PoliciesVersion |-> 1,
                    ArgsNum |-> 1, ReturnValue |-> 1,
                    StackAddresses |-> a2.addr, Args |-> a1.addr,
                    MatchedPolicies |-> a3.addr],
         mem |-> a3.mem]

\* An event with the arrays its slices refer to in place of the addresses.
Deep(ev, m) ==
    [ev EXCEPT !.Args = Contents(m, ev.Args),
               !.StackAddresses = Contents(m, ev.StackAddresses),
               !.MatchedPolicies = Contents(m, ev.MatchedPolicies)]

\* ----------------------------------------------------------------- schemas

ArgMeta(name, type) == [Name |-> name, Type |-> type]

\* events.Core.GetDefinitionByID: the definitions the derived events use.
getEventDefinition(id) ==
    CASE id = failEventID ->
           [Name |-> "test_event",
            Fields |-> <<ArgMeta("arg1", "int"), ArgMeta("arg2", "int")>>]
      [] id = deriveEventID ->
           [Name |-> "test_derive",
            Fields |-> <<ArgMeta("arg1", "int"), ArgMeta("arg2", "string")>>]
      [] OTHER ->
           [Name |-> "no_derivation", Fields |-> <<ArgMeta("arg1", "int")>>]

makeDeriveBase(eventID) ==
    LET def == getEventDefinition(eventID)
    IN  [Name |-> def.Name, ID |-> eventID, Fields |-> def.Fields]

\* ------------------------------------------------------ buildDerivedEvent

\* The state a derive function works on: the base event behind the pointer
\* it receives, and the memory.
State(ev, m) == [event |-> ev, mem |-> m]

\* de.ReturnValue is left as copied from the base event.
derivedHeaderKeepsReturnValue(de, baseEvent, skeleton) ==
    [de EXCEPT !.PoliciesVersion = baseEvent.PoliciesVersion,
               !.EventID = skeleton.ID,
               !.EventName = skeleton.Name]

\* de.PoliciesVersion, de.EventID, de.EventName, de.ReturnValue.
derivedHeader(de, baseEvent, skeleton) ==
    [de EXCEPT !.PoliciesVersion = baseEvent.PoliciesVersion,
               !.EventID = skeleton.ID,
               !.EventName = skeleton.Name,
               !.ReturnValue = 0]

\* The placeholder is written into the array de.StackAddresses refers to,
\* which the shallow copy shares with the base event.
newStackAddressesInPlace(m, de) ==
    IF de.StackAddresses = 0 THEN Alloc(m, <<0>>)
    ELSE [mem |-> [m EXCEPT ![de.StackAddresses] = <<0>>],
          addr |-> de.StackAddresses]

\* de.StackAddresses = make([]uint64, 1)
newStackAddresses(m, de) == Alloc(m, <<0>>)

ZeroArgument == [ArgMeta |-> ArgMeta("", ""), Value |-> "nil"]

\* The values are paired with the fields in reverse order.
newArgsReversed(m, skeleton, argsValues) ==
    Alloc(m, [i \in 1..Len(skeleton.Fields) |->
                 IF i <= Len(argsValues)
                 THEN [ArgMeta |-> skeleton.Fields[i],
                       Value |-> argsValues[Len(argsValues) + 1 - i]]
                 ELSE ZeroArgument])

\* de.Args = make([]trace.Argument, len(skeleton.Fields)), then one
\* Argument per value, at the value's index.
newArgs(m, skeleton, argsValues) ==
    Alloc(m, [i \in 1..Len(skeleton.Fields) |->
                 IF i <= Len(argsValues)
                 THEN [ArgMeta |-> skeleton.Fields[i], Value |-> argsValues[i]]
                 ELSE ZeroArgument])

\* The derived event keeps the slice of the shallow copy.
copyMatchedPoliciesShared(m, baseEvent) ==
    [mem |-> m, addr |-> baseEvent.MatchedPolicies]

\* The deep copy of the base event's MatchedPolicies; a nil list stays nil.
copyMatchedPolicies(m, baseEvent) ==
    IF baseEvent.MatchedPolicies # 0
    THEN Alloc(m, m[baseEvent.MatchedPolicies])
    ELSE [mem |-> m, addr |-> baseEvent.MatchedPolicies]

\* The header of the derived event is written through the pointer to the
\* base event, before the copy is made.
buildDerivedEventWritesBase(st, skeleton, argsValues) ==
    IF Len(skeleton.Fields) # Len(argsValues)
    THEN [st |-> st, de |-> ZeroEvent,
          err |-> unexpectedArgCountError(skeleton.Name, Len(skeleton.Fields),
                                          Len(argsValues))]
    ELSE LET baseEvent == derivedHeader(st.event, st.event, skeleton)
             sa == newStackAddresses(st.mem, baseEvent)
             ar == newArgs(sa.mem, skeleton, argsValues)
             mp == copyMatchedPolicies(ar.mem, baseEvent)
             de == [baseEvent EXCEPT !.StackAddresses = sa.addr,
                                     !.Args = ar.addr,
                                     !.ArgsNum = Len(mp.mem[ar.addr]),
                                     !.MatchedPolicies = mp.addr]
         IN  [st |-> State(baseEvent, mp.mem), de |-> de, err |-> NoError]

buildDerivedEvent(st, skeleton, argsValues) ==
    IF Len(skeleton.Fields) # Len(argsValues)
    THEN [st |-> st, de |-> ZeroEvent,
          err |-> unexpectedArgCountError(skeleton.Name, Len(skeleton.Fields),
                                          Len(argsValues))]
    ELSE LET baseEvent == st.event
             de0 == derivedHeader(baseEvent, baseEvent, skeleton)
             sa == newStackAddresses(st.mem, de0)
             ar == newArgs(sa.mem, skeleton, argsValues)
             mp == copyMatchedPolicies(ar.mem, baseEvent)
             de == [de0 EXCEPT !.StackAddresses = sa.addr,
                               !.Args = ar.addr,
                               !.ArgsNum = Len(mp.mem[ar.addr]),
                               !.MatchedPolicies = mp.addr]
         IN  [st |-> State(baseEvent, mp.mem), de |-> de, err |-> NoError]

\* ------------------------------------- deriveMultipleEvents, deriveSingleEvent

\* A slice that may be nil.
Nil == [nil |-> TRUE, elems |-> <<>>]
Slice(elems) == [nil |-> FALSE, elems |-> elems]

RECURSIVE buildAllStopAtError(_, _, _, _, _)
\* The loop over the tuples returns at the first tuple that fails.
buildAllStopAtError(st, skeleton, tuples, events, errs) ==
    IF tuples = <<>> THEN [st |-> st, events |-> events, errs |-> errs]
    ELSE LET r == buildDerivedEvent(st, skeleton, Head(tuples))
         IN  IF r.err # NoError
             THEN [st |-> r.st, events |-> events,
                   errs |-> Append(errs, r.err)]
             ELSE buildAllStopAtError(r.st, skeleton, Tail(tuples),
                                      Append(events, r.de), errs)

RECURSIVE buildAllPrepends(_, _, _, _, _)
\* Each derived event is put in front of those built before it.
buildAllPrepends(st, skeleton, tuples, events, errs) ==
    IF tuples = <<>> THEN [st |-> st, events |-> events, errs |-> errs]
    ELSE LET r == buildDerivedEvent(st, skeleton, Head(tuples))
         IN  IF r.err # NoError
             THEN buildAllPrepends(r.st, skeleton, Tail(tuples), events,
                                   Append(errs, r.err))
             ELSE buildAllPrepends(r.st, skeleton, Tail(tuples),
                                   <<r.de>> \o events, errs)

RECURSIVE buildAll(_, _, _, _, _)
\* The loop of the function deriveMultipleEvents returns: one
\* buildDerivedEvent per tuple, in order.
buildAll(st, skeleton, tuples, events, errs) ==
    IF tuples = <<>> THEN [st |-> st, events |-> events, errs |-> errs]
    ELSE LET r == buildDerivedEvent(st, skeleton, Head(tuples))
         IN  IF r.err # NoError
             THEN buildAll(r.st, skeleton, Tail(tuples), events,
                           Append(errs, r.err))
             ELSE buildAll(r.st, skeleton, Tail(tuples),
                           Append(events, r.de), errs)

\* The errors the argument function reports are dropped when it returns
\* tuples.
deriveMultipleEventsDropsReported(id, multiArgs, errs, st) ==
    LET skeleton == makeDeriveBase(id)
    IN  IF multiArgs.nil
        THEN [st |-> st, events |-> <<>>, errs |-> errs]
        ELSE buildAll(st, skeleton, multiArgs.elems, <<>>, <<>>)

\* The function deriveMultipleEvents(id, f) returns, applied to st, where
\* f returns (multiArgs, errs).
deriveMultipleEvents(id, multiArgs, errs, st) ==
    LET skeleton == makeDeriveBase(id)
    IN  IF multiArgs.nil
        THEN [st |-> st, events |-> <<>>, errs |-> errs]
        ELSE buildAll(st, skeleton, multiArgs.elems, <<>>, errs)

\* The tuple list holds derivedArgs whether it is nil or not.
deriveSingleEventWrapsNil(id, derivedArgs, err, st) ==
    LET errs == IF err # NoError THEN <<err>> ELSE <<>>
    IN  deriveMultipleEvents(id, Slice(<<derivedArgs.elems>>), errs, st)

\* The arguments are dropped when deriveArgs returned an error with them.
deriveSingleEventErrorWins(id, derivedArgs, err, st) ==
    LET multiArgs == IF derivedArgs.nil \/ err # NoError THEN Nil
                     ELSE Slice(<<derivedArgs.elems>>)
        errs == IF err # NoError THEN <<err>> ELSE <<>>
    IN  deriveMultipleEvents(id, multiArgs, errs, st)

\* The function deriveSingleEvent(id, f) returns, applied to st, where f
\* returns (derivedArgs, err).
deriveSingleEvent(id, derivedArgs, err, st) ==
    LET multiArgs == IF derivedArgs.nil THEN Nil
                     ELSE Slice(<<derivedArgs.elems>>)
        errs == IF err # NoError THEN <<err>> ELSE <<>>
    IN  deriveMultipleEvents(id, multiArgs, errs, st)

\* ------------------------------------------------------------------- rules

\* The derive functions that are registered: functions written by hand
\* ("func", as the mock table of Test_DeriveEvent holds) and functions built
\* by deriveMultipleEvents or deriveSingleEvent ("singleOne", the last) from
\* an argument function with the given result. None of them writes to the
\* event it receives.
Rule(name) ==
    CASE name = "alwaysDeriveError" ->
           [kind |-> "func", events |-> <<>>,
            errs |-> <<RuleError("derive error")>>]
      [] name = "deriveOne" ->
           [kind |-> "func",
            events |-> <<[ZeroEvent EXCEPT !.EventID = deriveEventID]>>,
            errs |-> <<>>]
      [] name = "noDerivation" ->
           [kind |-> "func", events |-> <<>>, errs |-> <<>>]
      [] name = "multiTwo" ->
           [kind |-> "multi", id |-> deriveEventID,
            args |-> Slice(<< <<1, 2>>, <<3, 4>> >>), errs |-> <<>>]
      [] name = "multiFewer" ->
           [kind |-> "multi", id |-> noDerivationEventID,
            args |-> Slice(<< <<>>, <<7>> >>), errs |-> <<>>]
      [] name = "multiMore" ->
           [kind |-> "multi", id |-> deriveEventID,
            args |-> Slice(<< <<1, 2, 3>>, <<1, 2>> >>), errs |-> <<>>]
      [] name = "failTwo" ->
           [kind |-> "multi", id |-> failEventID, args |-> Nil,
            errs |-> <<RuleError("fail derive args"),
                       RuleError("fail derive args")>>]
      [] name = "goodBadGood" ->
           [kind |-> "multi", id |-> deriveEventID,
            args |-> Slice(<< <<5, 6>>, <<9>>, <<7, 8>> >>), errs |-> <<>>]
      [] name = "singleNilErr" ->
           [kind |-> "single", id |-> noDerivationEventID, args |-> Nil,
            err |-> RuleError("fail derive args")]
      [] OTHER ->
           [kind |-> "single", id |-> noDerivationEventID,
            args |-> Slice(<<7>>), err |-> NoError]

\* The call deriveFn.DeriveFunction(event).
applyRule(name, st) ==
    LET r == Rule(name)
    IN  CASE r.kind = "func" ->
               [st |-> st, events |-> r.events, errs |-> r.errs]
          [] r.kind = "multi" ->
               deriveMultipleEvents(r.id, r.args, r.errs, st)
          [] OTHER -> deriveSingleEvent(r.id, r.args, r.err, st)

\* The enabled-predicates: each returns the flag of its name.
PredNames == {"pA", "pB"}

\* The Register calls made: (deriveFrom, deriveTo, deriveCondition,
\* deriveLogic).
Registrations ==
    { <<testEventID, failEventID, "pA", "alwaysDeriveError">>,
      <<testEventID, deriveEventID, "pB", "deriveOne">>,
      <<testEventID, noDerivationEventID, "pA", "noDerivation">>,
      <<testEventID, deriveEventID, "pA", "multiTwo">>,
      <<testEventID, noDerivationEventID, "pB", "multiFewer">>,
      <<2, deriveEventID, "pB", "multiMore">>,
      <<2, failEventID, "pA", "failTwo">>,
      <<2, noDerivationEventID, "pA", "singleOne">>,
      <<2, noDerivationEventID, "pB", "singleNilErr">> }

\* ------------------------------------------------------------------- Table

EmptyMap == [x \in {} |-> 0]

Entry(deriveLogic, deriveCondition) ==
    [DeriveFunction |-> deriveLogic, Enabled |-> deriveCondition]

\* The second registration replaces the first.
RegisterOverwrites(t, deriveFrom, deriveTo, deriveCondition, deriveLogic) ==
    LET t1 == IF deriveFrom \notin DOMAIN t
              THEN t @@ (deriveFrom :> EmptyMap) ELSE t
        new == (deriveTo :> Entry(deriveLogic, deriveCondition)) @@ t1[deriveFrom]
    IN  IF deriveTo \in DOMAIN t1[deriveFrom]
        THEN [table |-> [t1 EXCEPT ![deriveFrom] = new],
              err |-> alreadyRegisteredError(deriveFrom, deriveTo)]
        ELSE [table |-> [t1 EXCEPT ![deriveFrom] = new], err |-> NoError]

\* The bucket of deriveFrom is made anew by every Register call.
RegisterResetsBucket(t, deriveFrom, deriveTo, deriveCondition, deriveLogic) ==
    LET t1 == IF deriveFrom \notin DOMAIN t
              THEN t @@ (deriveFrom :> EmptyMap) ELSE t
        new == (deriveTo :> Entry(deriveLogic, deriveCondition))
    IN  IF deriveTo \in DOMAIN t1[deriveFrom]
        THEN [table |-> t1,
              err |-> alreadyRegisteredError(deriveFrom, deriveTo)]
        ELSE [table |-> [t1 EXCEPT ![deriveFrom] = new], err |-> NoError]

Register(t, deriveFrom, deriveTo, deriveCondition, deriveLogic) ==
    LET t1 == IF deriveFrom \notin DOMAIN t
              THEN t @@ (deriveFrom :> EmptyMap) ELSE t
        new == (deriveTo :> Entry(deriveLogic, deriveCondition)) @@ t1[deriveFrom]
    IN  IF deriveTo \in DOMAIN t1[deriveFrom]
        THEN [table |-> t1,
              err |-> alreadyRegisteredError(deriveFrom, deriveTo)]
        ELSE [table |-> [t1 EXCEPT ![deriveFrom] = new], err |-> NoError]

\* A missing identifier gets an empty map, as Register gives it.
lookupDeriveFnsInserts(t, id) ==
    IF id \in DOMAIN t THEN [table |-> t, deriveFns |-> t[id]]
    ELSE [table |-> t @@ (id :> EmptyMap), deriveFns |-> EmptyMap]

\* deriveFns := t[events.ID(event.EventID)]: the nil map for an identifier
\* the table does not hold; the table is only read.
lookupDeriveFns(t, id) ==
    [table |-> t, deriveFns |-> IF id \in DOMAIN t THEN t[id] ELSE EmptyMap]

\* The rule runs whatever its predicate would return.
callEnabledSkipped(deriveFn, flags) == [result |-> TRUE, returned |-> <<>>]

\* deriveFn.Enabled(): the result, and what the predicate returned.
callEnabled(deriveFn, flags) ==
    [result |-> flags[deriveFn.Enabled],
     returned |-> <<flags[deriveFn.Enabled]>>]

\* Only the first error of a rule is kept.
wrapErrorsFirstOnly(id, errs) ==
    IF errs = <<>> THEN <<>> ELSE <<deriveError(id, errs[1])>>

\* errors = append(errors, deriveError(id, err)) for each err of errs.
wrapErrors(id, errs) == [i \in 1..Len(errs) |-> deriveError(id, errs[i])]

\* The loop ends at the first rule that returns errors.
deriveLoopBodyBreaksOnError(id, deriveFn, flags, acc) ==
    LET en == callEnabled(deriveFn, flags)
        log == [acc.calls EXCEPT ![id].pred = @ \o en.returned]
        r == applyRule(deriveFn.DeriveFunction, acc.st)
    IN  IF en.result
        THEN [st |-> r.st,
              derivatives |-> acc.derivatives \o r.events,
              errors |-> acc.errors \o wrapErrors(id, r.errs),
              pending |-> IF r.errs # <<>> THEN {} ELSE acc.pending \ {id},
              calls |-> [log EXCEPT ![id].fn = @ + 1]]
        ELSE [acc EXCEPT !.pending = @ \ {id}, !.calls = log]

\* The events of a rule replace those of the rules visited before it.
deriveLoopBodyKeepsLast(id, deriveFn, flags, acc) ==
    LET en == callEnabled(deriveFn, flags)
        log == [acc.calls EXCEPT ![id].pred = @ \o en.returned]
        r == applyRule(deriveFn.DeriveFunction, acc.st)
    IN  IF en.result
        THEN [st |-> r.st,
              derivatives |-> r.events,
              errors |-> acc.errors \o wrapErrors(id, r.errs),
              pending |-> acc.pending \ {id},
              calls |-> [log EXCEPT ![id].fn = @ + 1]]
        ELSE [acc EXCEPT !.pending = @ \ {id}, !.calls = log]

\* One iteration of the loop of DeriveEvent, for the entry (id, deriveFn) of
\* deriveFns. acc holds the base event and the memory, derivatives, errors,
\* the entries still to visit, and what the predicates and derive functions
\* saw of the call.
deriveLoopBody(id, deriveFn, flags, acc) ==
    LET en == callEnabled(deriveFn, flags)
        log == [acc.calls EXCEPT ![id].pred = @ \o en.returned]
        r == applyRule(deriveFn.DeriveFunction, acc.st)
    IN  IF en.result
        THEN [st |-> r.st,
              derivatives |-> acc.derivatives \o r.events,
              errors |-> acc.errors \o wrapErrors(id, r.errs),
              pending |-> acc.pending \ {id},
              calls |-> [log EXCEPT ![id].fn = @ + 1]]
        ELSE [acc EXCEPT !.pending = @ \ {id}, !.calls = log]

\* ========================================================= buffer decoder
\*
\* EbpfDecoder of package bufferdecoder. A buffer is the sequence of its
\* bytes; the byte Go writes buffer[i] is the element i + 1 here. A decoder
\* is the record [buffer, cursor, typeDecoder]. Every Decode function is an
\* operator from the decoder and the destination it is handed to the decoder
\* and the destination it leaves and the error it returns; a run-time panic
\* of Go (an index or a slice expression out of range) is the error Panic.

\* ----------------------------------------------------------- decoder bounds

\* Buffers of every length up to MaxShortLen are decoded, besides buffers
\* about as long as each record.
MaxShortLen == 10

\* MoveCursor is called with every n in -MaxMove..MaxMove (and with the
\* distance to the end of the buffer and one more); the cursor is followed
\* down to -MaxMove.
MaxMove == 2

\* ----------------------------------------------------------- decoder values

Byte == 0..255

\* The error values of the decoder.
ErrBufferTooShort(typeName, expected, got) ==
    [kind |-> "ErrBufferTooShort", expected |-> expected, got |-> got,
     typeName |-> typeName]

\* errfmt.Errorf(format, args...): the format and its arguments.
Errorf(format, args) == [kind |-> "Errorf", format |-> format, args |-> args]

\* A run-time panic: index out of range, slice bounds out of range.
Panic == [kind |-> "panic"]

\* Whether the slice expression b[lo:hi] is in range (len(b) = cap(b)).
SliceOK(b, lo, hi) == 0 <= lo /\ lo <= hi /\ hi <= Len(b)

\* b[lo:hi], in range.
Sub(b, lo, hi) == SubSeq(b, lo + 1, hi)

\* b[i], in range.
Index(b, i) == b[i + 1]

\* binary.LittleEndian.Uint16(b) and binary.BigEndian.Uint16(b).
LittleEndianUint16(b) == b[1] + 256 * b[2]
BigEndianUint16(b) == 256 * b[1] + b[2]

\* binary.LittleEndian.Uint32(b), Uint64(b): the value that is the sum of
\* b[i] * 256^i over the Go indexes i. A uint32 or uint64 is held as the
\* function from the exponent i to its base-256 digit (the numbers
\* themselves are beyond the integers of the model checker).
LittleEndian(b) == [i \in 0..(Len(b) - 1) |-> b[i + 1]]

\* binary.BigEndian.Uint32(b): the sum of b[i] * 256^(len(b) - 1 - i).
BigEndian(b) == [i \in 0..(Len(b) - 1) |-> b[Len(b) - i]]

\* The conversions int8(u) and int16(u) of an unsigned value.
int8(u) == IF u >= 128 THEN u - 256 ELSE u
int16(u) == IF u >= 32768 THEN u - 65536 ELSE u

\* 256^w - u for a value u # 0 of w digits.
TwosComplement(u) ==
    LET k == CHOOSE i \in DOMAIN u :
                 u[i] # 0 /\ \A j \in DOMAIN u : j < i => u[j] = 0
    IN  [i \in DOMAIN u |-> IF i < k THEN 0
                            ELSE IF i = k THEN 256 - u[i] ELSE 255 - u[i]]

\* The top bit is taken as a sign and the other bits as the magnitude.
ToSignedMagnitude(u) ==
    LET w == Cardinality(DOMAIN u)
    IN  IF u[w - 1] >= 128
        THEN [neg |-> TRUE, mag |-> [u EXCEPT ![w - 1] = @ - 128]]
        ELSE [neg |-> FALSE, mag |-> u]

\* The conversions int32(u) and int64(u) of an unsigned value of Len digits:
\* the value u when its top bit is clear, and u - 256^w when it is set, held
\* as sign and magnitude.
ToSigned(u) ==
    LET w == Cardinality(DOMAIN u)
    IN  IF u[w - 1] >= 128 THEN [neg |-> TRUE, mag |-> TwosComplement(u)]
        ELSE [neg |-> FALSE, mag |-> u]

int32(u) == ToSigned(u)
int64(u) == ToSigned(u)

\* ------------------------------------------------------------ the decoder

\* New(rawBuffer, typeDecoder).
New(rawBuffer, typeDecoder) ==
    [buffer |-> rawBuffer, cursor |-> 0, typeDecoder |-> typeDecoder]

BuffLen(decoder) == Len(decoder.buffer)

BytesRead(decoder) == decoder.cursor

\* What a Decode function leaves and returns.
Ret(decoder, msg, err) == [decoder |-> decoder, msg |-> msg, err |-> err]

\* decoder.makeBufferTooShortError(typeName, expected), called where
\* decoder.buffer[decoder.cursor:] is in range.
makeBufferTooShortError(decoder, typeName, expected) ==
    ErrBufferTooShort(typeName, expected,
                      Len(Sub(decoder.buffer, decoder.cursor,
                              Len(decoder.buffer))))

\* Whether decoder.buffer[offset:] is in range.
TailOK(decoder, offset) == SliceOK(decoder.buffer, offset, Len(decoder.buffer))

\* len(decoder.buffer[offset:]), in range.
TailLen(decoder, offset) ==
    Len(Sub(decoder.buffer, offset, Len(decoder.buffer)))

\* Go's int is 32 or 64 bits wide and its sum wraps around; the model takes
\* the width of 32 bits.
MaxInt == 2147483647
MinInt == -MaxInt - 1

\* a + b of two ints.
IntAdd(a, b) ==
    IF b > 0 /\ a > MaxInt - b THEN MinInt + (a - (MaxInt - b) - 1)
    ELSE IF b < 0 /\ a < MinInt - b THEN MaxInt - ((MinInt - b) - a - 1)
    ELSE a + b

\* MoveCursor moves although cursor + n is beyond the end of the buffer.
MoveCursorUnchecked(decoder, n) ==
    [decoder |-> [decoder EXCEPT !.cursor = IntAdd(@, n)],
     ret |-> IntAdd(decoder.cursor, n)]

\* decoder.MoveCursor(n).
MoveCursor(decoder, n) ==
    IF IntAdd(decoder.cursor, n) > Len(decoder.buffer)
    THEN [decoder |-> decoder, ret |-> decoder.cursor]
    ELSE [decoder |-> [decoder EXCEPT !.cursor = IntAdd(@, n)],
          ret |-> IntAdd(decoder.cursor, n)]

\* SetBuffer keeps the cursor.
SetBufferKeepsCursor(decoder, newBuffer) ==
    [decoder EXCEPT !.buffer = newBuffer]

\* decoder.SetBuffer(newBuffer).
SetBuffer(decoder, newBuffer) ==
    [decoder EXCEPT !.buffer = newBuffer, !.cursor = 0]

\* ------------------------------------------- fixed-width decode primitives
\*
\* Each follows its Go text: the bounds check on len(decoder.buffer[offset:])
\* (whose slice expression panics for an offset outside the buffer), the
\* error, and otherwise the write of *msg and the move of the cursor.

DecodeUint8(decoder, msg) ==
    LET readAmount == 1
        offset == decoder.cursor
    IN  IF ~TailOK(decoder, offset) THEN Ret(decoder, msg, Panic)
        ELSE IF TailLen(decoder, offset) < readAmount
        THEN Ret(decoder, msg,
                 makeBufferTooShortError(decoder, "uint8", readAmount))
        ELSE Ret([decoder EXCEPT !.cursor = @ + readAmount],
                 Index(decoder.buffer, decoder.cursor),
                 NoError)

DecodeInt8(decoder, msg) ==
    LET readAmount == 1
        offset == decoder.cursor
    IN  IF ~TailOK(decoder, offset) THEN Ret(decoder, msg, Panic)
        ELSE IF TailLen(decoder, offset) < readAmount
        THEN Ret(decoder, msg,
                 makeBufferTooShortError(decoder, "int8", readAmount))
        ELSE Ret([decoder EXCEPT !.cursor = @ + readAmount],
                 int8(Index(decoder.buffer, offset)),
                 NoError)

DecodeUint16(decoder, msg) ==
    LET readAmount == 2
        offset == decoder.cursor
    IN  IF ~TailOK(decoder, offset) THEN Ret(decoder, msg, Panic)
        ELSE IF TailLen(decoder, offset) < readAmount
        THEN Ret(decoder, msg,
                 makeBufferTooShortError(decoder, "uint16", readAmount))
        ELSE Ret([decoder EXCEPT !.cursor = @ + readAmount],
                 LittleEndianUint16(Sub(decoder.buffer, offset,
                                         offset + readAmount)),
                 NoError)

DecodeUint16BigEndian(decoder, msg) ==
    LET readAmount == 2
        offset == decoder.cursor
    IN  IF ~TailOK(decoder, offset) THEN Ret(decoder, msg, Panic)
        ELSE IF TailLen(decoder, offset) < readAmount
        THEN Ret(decoder, msg,
                 makeBufferTooShortError(decoder, "uint16", readAmount))
        ELSE Ret([decoder EXCEPT !.cursor = @ + readAmount],
                 BigEndianUint16(Sub(decoder.buffer, offset,
                                      offset + readAmount)),
                 NoError)

DecodeInt16(decoder, msg) ==
    LET readAmount == 2
        offset == decoder.cursor
    IN  IF ~TailOK(decoder, offset) THEN Ret(decoder, msg, Panic)
        ELSE IF TailLen(decoder, offset) < readAmount
        THEN Ret(decoder, msg,
                 makeBufferTooShortError(decoder, "int16", readAmount))
        ELSE Ret([decoder EXCEPT !.cursor = @ + readAmount],
                 int16(LittleEndianUint16(Sub(decoder.buffer, offset,
                                               offset + readAmount))),
                 NoError)

DecodeUint32(decoder, msg) ==
    LET readAmount == 4
        offset == decoder.cursor
    IN  IF ~TailOK(decoder, offset) THEN Ret(decoder, msg, Panic)
        ELSE IF TailLen(decoder, offset) < readAmount
        THEN Ret(decoder, msg,
                 makeBufferTooShortError(decoder, "uint32", readAmount))
        ELSE Ret([decoder EXCEPT !.cursor = @ + readAmount],
                 LittleEndian(Sub(decoder.buffer, offset,
                                   offset + readAmount)),
                 NoError)

DecodeUint32BigEndian(decoder, msg) ==
    LET readAmount == 4
        offset == decoder.cursor
    IN  IF ~TailOK(decoder, offset) THEN Ret(decoder, msg, Panic)
        ELSE IF TailLen(decoder, offset) < readAmount
        THEN Ret(decoder, msg,
                 makeBufferTooShortError(decoder, "uint32 (big endian)", readAmount))
        ELSE Ret([decoder EXCEPT !.cursor = @ + readAmount],
                 BigEndian(Sub(decoder.buffer, offset, offset + readAmount)),
                 NoError)

DecodeInt32(decoder, msg) ==
    LET readAmount == 4
        offset == decoder.cursor
    IN  IF ~TailOK(decoder, offset) THEN Ret(decoder, msg, Panic)
        ELSE IF TailLen(decoder, offset) < readAmount
        THEN Ret(decoder, msg,
                 makeBufferTooShortError(decoder, "int32", readAmount))
        ELSE Ret([decoder EXCEPT !.cursor = @ + readAmount],
                 int32(LittleEndian(Sub(decoder.buffer, offset,
                                         offset + readAmount))),
                 NoError)

DecodeUint64(decoder, msg) ==
    LET readAmount == 8
        offset == decoder.cursor
    IN  IF ~TailOK(decoder, offset) THEN Ret(decoder, msg, Panic)
        ELSE IF TailLen(decoder, offset) < readAmount
        THEN Ret(decoder, msg,
                 makeBufferTooShortError(decoder, "uint64", readAmount))
        ELSE Ret([decoder EXCEPT !.cursor = @ + readAmount],
                 LittleEndian(Sub(decoder.buffer, offset,
                                   offset + readAmount)),
                 NoError)

\* DecodeInt64 moves the cursor by half of what it has read.
DecodeInt64AdvancesHalf(decoder, msg) ==
    LET readAmount == 8
        offset == decoder.cursor
    IN  IF ~TailOK(decoder, offset) THEN Ret(decoder, msg, Panic)
        ELSE IF TailLen(decoder, offset) < readAmount
        THEN Ret(decoder, msg,
                 makeBufferTooShortError(decoder, "int64", readAmount))
        ELSE Ret([decoder EXCEPT !.cursor = @ + 4],
                 int64(LittleEndian(Sub(decoder.buffer, decoder.cursor,
                                         decoder.cursor + readAmount))),
                 NoError)

DecodeInt64(decoder, msg) ==
    LET readAmount == 8
        offset == decoder.cursor
    IN  IF ~TailOK(decoder, offset) THEN Ret(decoder, msg, Panic)
        ELSE IF TailLen(decoder, offset) < readAmount
        THEN Ret(decoder, msg,
                 makeBufferTooShortError(decoder, "int64", readAmount))
        ELSE Ret([decoder EXCEPT !.cursor = @ + readAmount],
                 int64(LittleEndian(Sub(decoder.buffer, decoder.cursor,
                                         decoder.cursor + readAmount))),
                 NoError)

DecodeBool(decoder, msg) ==
    LET offset == decoder.cursor
    IN  IF ~TailOK(decoder, offset) THEN Ret(decoder, msg, Panic)
        ELSE IF TailLen(decoder, offset) < 1
        THEN Ret(decoder, msg, makeBufferTooShortError(decoder, "bool", 1))
        ELSE Ret([decoder EXCEPT !.cursor = @ + 1],
                 Index(decoder.buffer, offset) # 0,
                 NoError)

\* --------------------------------------------------- variable-width decoders

\* copy(dst, src): the first min(len(dst), len(src)) elements of dst become
\* those of src.
copy(dst, src) ==
    LET n == IF Len(dst) < Len(src) THEN Len(dst) ELSE Len(src)
    IN  SubSeq(src, 1, n) \o SubSeq(dst, n + 1, Len(dst))

\* decoder.DecodeBytes(msg, size); msg is the array the slice refers to.
DecodeBytes(decoder, msg, size) ==
    LET offset == decoder.cursor
    IN  IF ~TailOK(decoder, offset) THEN Ret(decoder, msg, Panic)
        ELSE LET bufferLen == TailLen(decoder, offset)
             IN  IF bufferLen < size
                 THEN Ret(decoder, msg,
                          makeBufferTooShortError(decoder, "bytes", size))
                 ELSE IF ~SliceOK(decoder.buffer, offset, offset + size)
                 THEN Ret(decoder, msg, Panic)
                 ELSE Ret([decoder EXCEPT !.cursor = @ + size],
                          copy(msg, Sub(decoder.buffer, offset,
                                        offset + size)),
                          NoError)

\* decoder.ReadBytesLen(len): msg is the slice returned. make panics for a
\* negative length.
ReadBytesLen(decoder, len) ==
    IF len < 0 THEN Ret(decoder, Nil, Panic)
    ELSE LET res == [i \in 1..len |-> 0]
             r == DecodeBytes(decoder, res, len)
         IN  IF r.err = Panic THEN Ret(r.decoder, Nil, Panic)
             ELSE IF r.err # NoError
             THEN Ret(r.decoder, Nil,
                      Errorf("error reading byte array: %v", <<r.err>>))
             ELSE Ret(r.decoder, Slice(r.msg), NoError)

RECURSIVE int32ArrayLoop(_, _, _, _)
\* The loop of DecodeInt32Array from i on; msg[i] panics beyond len(msg).
int32ArrayLoop(decoder, msg, i, size) ==
    IF ~(i < size) THEN Ret(decoder, msg, NoError)
    ELSE IF ~SliceOK(decoder.buffer, decoder.cursor, decoder.cursor + 4)
              \/ ~(i < Len(msg))
    THEN Ret(decoder, msg, Panic)
    ELSE int32ArrayLoop(
             [decoder EXCEPT !.cursor = @ + 4],
             [msg EXCEPT ![i + 1] =
                 int32(LittleEndian(Sub(decoder.buffer, decoder.cursor,
                                        decoder.cursor + 4)))],
             i + 1, size)

\* decoder.DecodeInt32Array(msg, size).
DecodeInt32Array(decoder, msg, size) ==
    LET offset == decoder.cursor
    IN  IF ~TailOK(decoder, offset) THEN Ret(decoder, msg, Panic)
        ELSE IF TailLen(decoder, offset) < size * 4
        THEN Ret(decoder, msg,
                 makeBufferTooShortError(decoder, "[]int32", size * 4))
        ELSE int32ArrayLoop(decoder, msg, 0, size)

\* The zero value of a uint64.
ZeroUint64 == [i \in 0..7 |-> 0]

RECURSIVE uint64ArrayLoop(_, _, _, _)
\* The loop of DecodeUint64Array from i on.
uint64ArrayLoop(decoder, msg, i, arrLen) ==
    IF ~(i < arrLen) THEN Ret(decoder, msg, NoError)
    ELSE LET r == DecodeUint64(decoder, ZeroUint64)
         IN  IF r.err = Panic THEN Ret(r.decoder, msg, Panic)
             ELSE IF r.err # NoError
             THEN Ret(r.decoder, msg,
                      Errorf("can't read element %d uint64 from buffer: %s",
                             <<i, r.err>>))
             ELSE uint64ArrayLoop(r.decoder, Append(msg, r.msg), i + 1,
                                  arrLen)

\* A failing DecodeUint64Array puts the cursor and the destination back.
DecodeUint64ArrayAtomic(decoder, msg) ==
    LET r == DecodeUint16(decoder, 0)
        arrLen == r.msg
    IN  IF r.err = Panic THEN Ret(r.decoder, msg, Panic)
        ELSE IF r.err # NoError
        THEN Ret(r.decoder, msg,
                 Errorf("error reading ulong array number of elements: %v",
                        <<r.err>>))
        ELSE LET l == uint64ArrayLoop(r.decoder, msg, 0, arrLen)
             IN  IF l.err = NoError THEN l ELSE Ret(decoder, msg, l.err)

\* The elements read replace what the destination held.
DecodeUint64ArrayOverwrites(decoder, msg) ==
    LET r == DecodeUint16(decoder, 0)
    IN  IF r.err = Panic THEN Ret(r.decoder, msg, Panic)
        ELSE IF r.err # NoError
        THEN Ret(r.decoder, msg,
                 Errorf("error reading ulong array number of elements: %v",
                        <<r.err>>))
        ELSE uint64ArrayLoop(r.decoder, <<>>, 0, r.msg)

\* decoder.DecodeUint64Array(msg); msg is the slice *msg.
DecodeUint64Array(decoder, msg) ==
    LET r == DecodeUint16(decoder, 0)
        arrLen == r.msg
    IN  IF r.err = Panic THEN Ret(r.decoder, msg, Panic)
        ELSE IF r.err # NoError
        THEN Ret(r.decoder, msg,
                 Errorf("error reading ulong array number of elements: %v",
                        <<r.err>>))
        ELSE uint64ArrayLoop(r.decoder, msg, 0, arrLen)

\* --------------------------------------------------------- composite decoders

\* GetSizeBytes() of the record types: the length of the record's layout
\* (144 for the event context).
GetSizeBytes(type) ==
    CASE type = "EventContext" -> 144
      [] type = "SlimCred" -> 80
      [] type = "ChunkMeta" -> 49
      [] type = "VfsFileMeta" -> 20
      [] type = "KernelModuleMeta" -> 20
      [] type = "BpfObjectMeta" -> 28
      [] OTHER -> 12

\* The error DecodeContext returns.
contextTooShortError(got, want) ==
    Errorf("context buffer size [%d] smaller than %d", <<got, want>>)

\* HostTid is read from the bytes of HostPid.
DecodeContextHostTidAtHostPid(decoder, eCtx) ==
    LET offset == decoder.cursor
        size == GetSizeBytes("EventContext")
    IN  IF ~TailOK(decoder, offset) THEN Ret(decoder, eCtx, Panic)
        ELSE IF TailLen(decoder, offset) < size
        THEN Ret(decoder, eCtx,
                 contextTooShortError(TailLen(decoder, offset), size))
        ELSE Ret([decoder EXCEPT !.cursor = @ + size],
                 [eCtx EXCEPT
                    !.Ts = LittleEndian(Sub(decoder.buffer, offset, offset + 8)),
                    !.StartTime = LittleEndian(Sub(decoder.buffer, offset + 8, offset + 16)),
                    !.CgroupID = LittleEndian(Sub(decoder.buffer, offset + 16, offset + 24)),
                    !.Pid = LittleEndian(Sub(decoder.buffer, offset + 24, offset + 28)),
                    !.Tid = LittleEndian(Sub(decoder.buffer, offset + 28, offset + 32)),
                    !.Ppid = LittleEndian(Sub(decoder.buffer, offset + 32, offset + 36)),
                    !.HostPid = LittleEndian(Sub(decoder.buffer, offset + 36, offset + 40)),
                    !.HostTid = LittleEndian(Sub(decoder.buffer, offset + 36, offset + 40)),
                    !.HostPpid = LittleEndian(Sub(decoder.buffer, offset + 44, offset + 48)),
                    !.Uid = LittleEndian(Sub(decoder.buffer, offset + 48, offset + 52)),
                    !.MntID = LittleEndian(Sub(decoder.buffer, offset + 52, offset + 56)),
                    !.PidID = LittleEndian(Sub(decoder.buffer, offset + 56, offset + 60)),
                    !.Comm = Sub(decoder.buffer, offset + 60, offset + 76),
                    !.UtsName = Sub(decoder.buffer, offset + 76, offset + 92),
                    !.Flags = LittleEndian(Sub(decoder.buffer, offset + 92, offset + 96)),
                    !.LeaderStartTime = LittleEndian(Sub(decoder.buffer, offset + 96, offset + 104)),
                    !.ParentStartTime = LittleEndian(Sub(decoder.buffer, offset + 104, offset + 112)),
                    !.EventID = int32(LittleEndian(Sub(decoder.buffer, offset + 112, offset + 116))),
                    !.Syscall = int32(LittleEndian(Sub(decoder.buffer, offset + 116, offset + 120))),
                    !.Retval = int64(LittleEndian(Sub(decoder.buffer, offset + 120, offset + 128))),
                    !.StackID = LittleEndian(Sub(decoder.buffer, offset + 128, offset + 132)),
                    !.ProcessorId = LittleEndianUint16(Sub(decoder.buffer, offset + 132, offset + 134)),
                    !.PoliciesVersion = LittleEndianUint16(Sub(decoder.buffer, offset + 134, offset + 136)),
                    !.MatchedPolicies = LittleEndian(Sub(decoder.buffer, offset + 136, offset + 144))],
                 NoError)

\* decoder.DecodeContext(eCtx).
DecodeContext(decoder, eCtx) ==
    LET offset == decoder.cursor
        size == GetSizeBytes("EventContext")
    IN  IF ~TailOK(decoder, offset) THEN Ret(decoder, eCtx, Panic)
        ELSE IF TailLen(decoder, offset) < size
        THEN Ret(decoder, eCtx,
                 contextTooShortError(TailLen(decoder, offset), size))
        ELSE Ret([decoder EXCEPT !.cursor = @ + size],
                 [eCtx EXCEPT
                    !.Ts = LittleEndian(Sub(decoder.buffer, offset, offset + 8)),
                    !.StartTime = LittleEndian(Sub(decoder.buffer, offset + 8, offset + 16)),
                    !.CgroupID = LittleEndian(Sub(decoder.buffer, offset + 16, offset + 24)),
                    !.Pid = LittleEndian(Sub(decoder.buffer, offset + 24, offset + 28)),
                    !.Tid = LittleEndian(Sub(decoder.buffer, offset + 28, offset + 32)),
                    !.Ppid = LittleEndian(Sub(decoder.buffer, offset + 32, offset + 36)),
                    !.HostPid = LittleEndian(Sub(decoder.buffer, offset + 36, offset + 40)),
                    !.HostTid = LittleEndian(Sub(decoder.buffer, offset + 40, offset + 44)),
                    !.HostPpid = LittleEndian(Sub(decoder.buffer, offset + 44, offset + 48)),
                    !.Uid = LittleEndian(Sub(decoder.buffer, offset + 48, offset + 52)),
                    !.MntID = LittleEndian(Sub(decoder.buffer, offset + 52, offset + 56)),
                    !.PidID = LittleEndian(Sub(decoder.buffer, offset + 56, offset + 60)),
                    !.Comm = Sub(decoder.buffer, offset + 60, offset + 76),
                    !.UtsName = Sub(decoder.buffer, offset + 76, offset + 92),
                    !.Flags = LittleEndian(Sub(decoder.buffer, offset + 92, offset + 96)),
                    !.LeaderStartTime = LittleEndian(Sub(decoder.buffer, offset + 96, offset + 104)),
                    !.ParentStartTime = LittleEndian(Sub(decoder.buffer, offset + 104, offset + 112)),
                    !.EventID = int32(LittleEndian(Sub(decoder.buffer, offset + 112, offset + 116))),
                    !.Syscall = int32(LittleEndian(Sub(decoder.buffer, offset + 116, offset + 120))),
                    !.Retval = int64(LittleEndian(Sub(decoder.buffer, offset + 120, offset + 128))),
                    !.StackID = LittleEndian(Sub(decoder.buffer, offset + 128, offset + 132)),
                    !.ProcessorId = LittleEndianUint16(Sub(decoder.buffer, offset + 132, offset + 134)),
                    !.PoliciesVersion = LittleEndianUint16(Sub(decoder.buffer, offset + 134, offset + 136)),
                    !.MatchedPolicies = LittleEndian(Sub(decoder.buffer, offset + 136, offset + 144))],
                 NoError)

\* decoder.DecodeSlimCred(msg).
DecodeSlimCred(decoder, msg) ==
    LET offset == decoder.cursor
    IN  IF ~TailOK(decoder, offset) THEN Ret(decoder, msg, Panic)
        ELSE IF TailLen(decoder, offset) < 80
        THEN Ret(decoder, msg,
                 makeBufferTooShortError(decoder, "slimCred", 80))
        ELSE Ret([decoder EXCEPT !.cursor = @ + GetSizeBytes("SlimCred")],
                 [msg EXCEPT
                    !.Uid = LittleEndian(Sub(decoder.buffer, offset, offset + 4)),
                    !.Gid = LittleEndian(Sub(decoder.buffer, offset + 4, offset + 8)),
                    !.Suid = LittleEndian(Sub(decoder.buffer, offset + 8, offset + 12)),
                    !.Sgid = LittleEndian(Sub(decoder.buffer, offset + 12, offset + 16)),
                    !.Euid = LittleEndian(Sub(decoder.buffer, offset + 16, offset + 20)),
                    !.Egid = LittleEndian(Sub(decoder.buffer, offset + 20, offset + 24)),
                    !.Fsuid = LittleEndian(Sub(decoder.buffer, offset + 24, offset + 28)),
                    !.Fsgid = LittleEndian(Sub(decoder.buffer, offset + 28, offset + 32)),
                    !.UserNamespace = LittleEndian(Sub(decoder.buffer, offset + 32, offset + 36)),
                    !.SecureBits = LittleEndian(Sub(decoder.buffer, offset + 36, offset + 40)),
                    !.CapInheritable = LittleEndian(Sub(decoder.buffer, offset + 40, offset + 48)),
                    !.CapPermitted = LittleEndian(Sub(decoder.buffer, offset + 48, offset + 56)),
                    !.CapEffective = LittleEndian(Sub(decoder.buffer, offset + 56, offset + 64)),
                    !.CapBounding = LittleEndian(Sub(decoder.buffer, offset + 64, offset + 72)),
                    !.CapAmbient = LittleEndian(Sub(decoder.buffer, offset + 72, offset + 80))],
                 NoError)

\* decoder.DecodeChunkMeta(msg).
DecodeChunkMeta(decoder, msg) ==
    LET offset == decoder.cursor
    IN  IF ~TailOK(decoder, offset) THEN Ret(decoder, msg, Panic)
        ELSE IF TailLen(decoder, offset) < GetSizeBytes("ChunkMeta")
        THEN Ret(decoder, msg,
                 makeBufferTooShortError(decoder, "chunkMeta", GetSizeBytes("ChunkMeta")))
        ELSE Ret([decoder EXCEPT !.cursor = @ + GetSizeBytes("ChunkMeta")],
                 [msg EXCEPT
                    !.BinType = Index(decoder.buffer, offset),
                    !.CgroupID = LittleEndian(Sub(decoder.buffer, offset + 1, offset + 9)),
                    !.Metadata = Sub(decoder.buffer, offset + 9, offset + 37),
                    !.Size = int32(LittleEndian(Sub(decoder.buffer, offset + 37, offset + 41))),
                    !.Off = LittleEndian(Sub(decoder.buffer, offset + 41, offset + 49))],
                 NoError)

\* decoder.DecodeVfsFileMeta(msg).
DecodeVfsFileMeta(decoder, msg) ==
    LET offset == decoder.cursor
    IN  IF ~TailOK(decoder, offset) THEN Ret(decoder, msg, Panic)
        ELSE IF TailLen(decoder, offset) < GetSizeBytes("VfsFileMeta")
        THEN Ret(decoder, msg,
                 makeBufferTooShortError(decoder, "vfsFileMeta", GetSizeBytes("VfsFileMeta")))
        ELSE Ret([decoder EXCEPT !.cursor = @ + GetSizeBytes("VfsFileMeta")],
                 [msg EXCEPT
                    !.DevID = LittleEndian(Sub(decoder.buffer, offset, offset + 4)),
                    !.Inode = LittleEndian(Sub(decoder.buffer, offset + 4, offset + 12)),
                    !.Mode = LittleEndian(Sub(decoder.buffer, offset + 12, offset + 16)),
                    !.Pid = LittleEndian(Sub(decoder.buffer, offset + 16, offset + 20))],
                 NoError)

\* decoder.DecodeKernelModuleMeta(msg).
DecodeKernelModuleMeta(decoder, msg) ==
    LET offset == decoder.cursor
    IN  IF ~TailOK(decoder, offset) THEN Ret(decoder, msg, Panic)
        ELSE IF TailLen(decoder, offset) < GetSizeBytes("KernelModuleMeta")
        THEN Ret(decoder, msg,
                 makeBufferTooShortError(decoder, "kernelModuleMeta", GetSizeBytes("KernelModuleMeta")))
        ELSE Ret([decoder EXCEPT !.cursor = @ + GetSizeBytes("KernelModuleMeta")],
                 [msg EXCEPT
                    !.DevID = LittleEndian(Sub(decoder.buffer, offset, offset + 4)),
                    !.Inode = LittleEndian(Sub(decoder.buffer, offset + 4, offset + 12)),
                    !.Pid = LittleEndian(Sub(decoder.buffer, offset + 12, offset + 16)),
                    !.Size = LittleEndian(Sub(decoder.buffer, offset + 16, offset + 20))],
                 NoError)

\* decoder.DecodeBpfObjectMeta(msg).
DecodeBpfObjectMeta(decoder, msg) ==
    LET offset == decoder.cursor
    IN  IF ~TailOK(decoder, offset) THEN Ret(decoder, msg, Panic)
        ELSE IF TailLen(decoder, offset) < GetSizeBytes("BpfObjectMeta")
        THEN Ret(decoder, msg,
                 makeBufferTooShortError(decoder, "bpfObjectMeta", GetSizeBytes("BpfObjectMeta")))
        ELSE Ret([decoder EXCEPT !.cursor = @ + GetSizeBytes("BpfObjectMeta")],
                 [msg EXCEPT
                    !.Name = Sub(decoder.buffer, offset, offset + 16),
                    !.Rand = LittleEndian(Sub(decoder.buffer, offset + 16, offset + 20)),
                    !.Pid = LittleEndian(Sub(decoder.buffer, offset + 20, offset + 24)),
                    !.Size = LittleEndian(Sub(decoder.buffer, offset + 24, offset + 28))],
                 NoError)

\* decoder.DecodeMprotectWriteMeta(msg).
DecodeMprotectWriteMeta(decoder, msg) ==
    LET offset == decoder.cursor
    IN  IF ~TailOK(decoder, offset) THEN Ret(decoder, msg, Panic)
        ELSE IF TailLen(decoder, offset) < GetSizeBytes("MprotectWriteMeta")
        THEN Ret(decoder, msg,
                 makeBufferTooShortError(decoder, "mprotectWriteMeta", GetSizeBytes("MprotectWriteMeta")))
        ELSE Ret([decoder EXCEPT !.cursor = @ + GetSizeBytes("MprotectWriteMeta")],
                 [msg EXCEPT
                    !.Ts = LittleEndian(Sub(decoder.buffer, offset, offset + 8)),
                    !.Pid = LittleEndian(Sub(decoder.buffer, offset + 8, offset + 12))],
                 NoError)

\* -------------------------------------------------- decoder: inputs, actions

RecordTypes == {"EventContext", "SlimCred", "ChunkMeta", "VfsFileMeta",
                "KernelModuleMeta", "BpfObjectMeta", "MprotectWriteMeta"}

\* A buffer of len bytes: byte i is seed + 37 * i modulo 256.
PatternBuffer(len, seed) == [i \in 1..len |-> (seed + 37 * (i - 1)) % 256]

Seeds == {0, 200}

\* Short buffers, of every length up to MaxShortLen.
ShortBuffers ==
    {PatternBuffer(len, seed) : len \in 0..MaxShortLen, seed \in Seeds}

\* For each record but the event context a buffer one byte longer than it:
\* the record is there from the cursors 0 and 1, and no longer from the
\* cursor 2.
RecordBuffers ==
    {PatternBuffer(GetSizeBytes(t) + 1, 200) :
        t \in RecordTypes \ {"EventContext"}}

\* Buffers that start with the element count of a uint64 array: no element,
\* one, two, two of which the second is cut short, and 256 announced.
ArrayBuffers ==
    { <<0, 0>>,
      <<1, 0>> \o PatternBuffer(8, 200),
      <<2, 0>> \o PatternBuffer(16, 0),
      <<2, 0>> \o PatternBuffer(9, 0),
      <<0, 1>> \o PatternBuffer(8, 0) }

\* What a destination holds before the call that decodes into it.
OldNum(w) == [i \in 0..(w - 1) |-> 170]
OldBytes(n) == [i \in 1..n |-> 170]
OldSigned(w) == [neg |-> FALSE, mag |-> OldNum(w)]

OldContext ==
    [Ts |-> OldNum(8), StartTime |-> OldNum(8), CgroupID |-> OldNum(8),
     Pid |-> OldNum(4), Tid |-> OldNum(4), Ppid |-> OldNum(4),
     HostPid |-> OldNum(4), HostTid |-> OldNum(4), HostPpid |-> OldNum(4),
     Uid |-> OldNum(4), MntID |-> OldNum(4), PidID |-> OldNum(4),
     Comm |-> OldBytes(16), UtsName |-> OldBytes(16), Flags |-> OldNum(4),
     LeaderStartTime |-> OldNum(8), ParentStartTime |-> OldNum(8),
     EventID |-> OldSigned(4), Syscall |-> OldSigned(4),
     Retval |-> OldSigned(8), StackID |-> OldNum(4), ProcessorId |-> 170,
     PoliciesVersion |-> 170, MatchedPolicies |-> OldNum(8)]

OldSlimCred ==
    [Uid |-> OldNum(4), Gid |-> OldNum(4), Suid |-> OldNum(4),
     Sgid |-> OldNum(4), Euid |-> OldNum(4), Egid |-> OldNum(4),
     Fsuid |-> OldNum(4), Fsgid |-> OldNum(4), UserNamespace |-> OldNum(4),
     SecureBits |-> OldNum(4), CapInheritable |-> OldNum(8),
     CapPermitted |-> OldNum(8), CapEffective |-> OldNum(8),
     CapBounding |-> OldNum(8), CapAmbient |-> OldNum(8)]

OldChunkMeta ==
    [BinType |-> 170, CgroupID |-> OldNum(8), Metadata |-> OldBytes(28),
     Size |-> OldSigned(4), Off |-> OldNum(8)]

OldVfsFileMeta ==
    [DevID |-> OldNum(4), Inode |-> OldNum(8), Mode |-> OldNum(4),
     Pid |-> OldNum(4)]

OldKernelModuleMeta ==
    [DevID |-> OldNum(4), Inode |-> OldNum(8), Pid |-> OldNum(4),
     Size |-> OldNum(4)]

OldBpfObjectMeta ==
    [Name |-> OldBytes(16), Rand |-> OldNum(4), Pid |-> OldNum(4),
     Size |-> OldNum(4)]

OldMprotectWriteMeta == [Ts |-> OldNum(8), Pid |-> OldNum(4)]

\* The layout of the event-context header: field, offset, width, and how
\* the field is held ("u": unsigned digits, "i": signed, "u16": a number,
\* "b": a byte array).
ContextLayout ==
    << <<"Ts", 0, 8, "u">>, <<"StartTime", 8, 8, "u">>,
       <<"CgroupID", 16, 8, "u">>, <<"Pid", 24, 4, "u">>,
       <<"Tid", 28, 4, "u">>, <<"Ppid", 32, 4, "u">>,
       <<"HostPid", 36, 4, "u">>, <<"HostTid", 40, 4, "u">>,
       <<"HostPpid", 44, 4, "u">>, <<"Uid", 48, 4, "u">>,
       <<"MntID", 52, 4, "u">>, <<"PidID", 56, 4, "u">>,
       <<"Comm", 60, 16, "b">>, <<"UtsName", 76, 16, "b">>,
       <<"Flags", 92, 4, "u">>, <<"LeaderStartTime", 96, 8, "u">>,
       <<"ParentStartTime", 104, 8, "u">>, <<"EventID", 112, 4, "i">>,
       <<"Syscall", 116, 4, "i">>, <<"Retval", 120, 8, "i">>,
       <<"StackID", 128, 4, "u">>, <<"ProcessorId", 132, 2, "u16">>,
       <<"PoliciesVersion", 134, 2, "u16">>,
       <<"MatchedPolicies", 136, 8, "u">> >>

\* The signed value v, -32768 < v < 32768, of w bytes, as sign and magnitude.
SignedOf(v, w) ==
    LET m == IF v < 0 THEN -v ELSE v
    IN  [neg |-> v < 0,
         mag |-> [i \in 0..(w - 1) |-> IF i = 0 THEN m % 256
                                       ELSE IF i = 1 THEN m \div 256 ELSE 0]]

\* A header of known field values: field k holds the digits 16k + i + s.
KnownContext(s) ==
    LET Num(k, w) == [i \in 0..(w - 1) |-> (16 * k + i + s) % 256]
    IN  [Ts |-> Num(1, 8), StartTime |-> Num(2, 8), CgroupID |-> Num(3, 8),
         Pid |-> Num(4, 4), Tid |-> Num(5, 4), Ppid |-> Num(6, 4),
         HostPid |-> Num(7, 4), HostTid |-> Num(8, 4),
         HostPpid |-> Num(9, 4), Uid |-> Num(10, 4), MntID |-> Num(11, 4),
         PidID |-> Num(12, 4),
         Comm |-> [i \in 1..16 |-> 96 + i + s],
         UtsName |-> [i \in 1..16 |-> 64 + i + s],
         Flags |-> Num(13, 4), LeaderStartTime |-> Num(14, 8),
         ParentStartTime |-> Num(15, 8),
         EventID |-> SignedOf(700 + s, 4),
         Syscall |-> SignedOf(IF s = 0 THEN -2 ELSE 59, 4),
         Retval |-> SignedOf(IF s = 0 THEN -1 ELSE 300, 8),
         StackID |-> Num(16, 4), ProcessorId |-> 3 + s,
         PoliciesVersion |-> 513 + s, MatchedPolicies |-> Num(17, 8)]

KnownContexts == {KnownContext(0), KnownContext(1)}

\* The w bytes of the signed value sv (the magnitude below 32768) in two's
\* complement, little-endian.
PutSigned(sv, w) ==
    LET m == sv.mag[0] + 256 * sv.mag[1]
        low == IF sv.neg THEN 65536 - m ELSE m
    IN  [i \in 1..w |-> IF i = 1 THEN low % 256
                        ELSE IF i = 2 THEN low \div 256
                        ELSE IF sv.neg THEN 255 ELSE 0]

\* The little-endian bytes of one field of the header.
FieldBytes(value, width, kind) ==
    CASE kind = "u" -> [i \in 1..width |-> value[i - 1]]
      [] kind = "i" -> PutSigned(value, width)
      [] kind = "u16" -> <<value % 256, value \div 256>>
      [] OTHER -> value

\* The 144-byte header that holds the field values of c at the offsets of
\* the layout.
EncodeContext(c) ==
    [j \in 1..144 |->
        LET e == CHOOSE e \in {ContextLayout[k] : k \in DOMAIN ContextLayout} :
                     e[2] <= j - 1 /\ j - 1 < e[2] + e[3]
        IN  FieldBytes(c[e[1]], e[3], e[4])[j - e[2]]]

\* Buffers that hold an encoded header: alone, and after another byte.
ContextBuffers ==
    { EncodeContext(KnownContext(0)),
      <<9>> \o EncodeContext(KnownContext(1)) }

\* The buffers a decoder is constructed with.
Buffers == ShortBuffers \cup RecordBuffers \cup ArrayBuffers \cup ContextBuffers

\* The buffers SetBuffer is called with.
ResetBuffers ==
    { PatternBuffer(0, 0), PatternBuffer(3, 200),
      PatternBuffer(MaxShortLen, 0),
      PatternBuffer(GetSizeBytes("VfsFileMeta") + 1, 200),
      <<2, 0>> \o PatternBuffer(16, 0),
      EncodeContext(KnownContext(0)) }

\* The arguments of New: every buffer with the table of NewTypeDecoder(),
\* the short buffers of the first seed with the nil table.
Constructions ==
    (Buffers \X {"NewTypeDecoder"})
        \cup ({PatternBuffer(len, 0) : len \in 0..MaxShortLen} \X {"nil"})

\* The values of n MoveCursor is called with.
MoveArgs(d) ==
    (-MaxMove..MaxMove)
        \cup {Len(d.buffer) - d.cursor, Len(d.buffer) - d.cursor + 1, MaxInt}

\* The sizes DecodeBytes and ReadBytesLen are called with.
Sizes(d) ==
    (-1..MaxMove)
        \cup {Len(d.buffer) - d.cursor, Len(d.buffer) - d.cursor + 1}

\* ------------------------------------------------- decoder: DecodeArguments
\*
\* args is the array of trace.Argument the caller passes, evtFields the
\* schema of the event. A Value is an interface: NilValue is the nil
\* interface, every other value carries its type.

NilValue == [type |-> "nil"]
U8Value(n) == [type |-> "u8", n |-> n]
U16Value(n) == [type |-> "u16", n |-> n]
U32Value(u) == [type |-> "u32", digits |-> u]

\* events.DataField: the metadata of the argument, the type it is decoded
\* as, and the zero value the schema declares for it.
DataField(name, decodeAs, zero) ==
    [ArgMeta |-> ArgMeta(name, decodeAs), DecodeAs |-> decodeAs,
     Zero |-> zero]

\* trace.Argument{}: the empty slot.
EmptyArgument == [ArgMeta |-> ArgMeta("", ""), Value |-> NilValue]

\* The result of readArgFromBuff.
ArgRead(decoder, idx, arg, err) ==
    [decoder |-> decoder, idx |-> idx, arg |-> arg, err |-> err]

\* readArgFromBuff(eventId, decoder, evtFields): the index of the argument
\* is one byte, decoded with DecodeUint8; it names the field of the schema;
\* the value follows, decoded as the field's type.
readArgFromBuff(eventId, decoder, evtFields) ==
    LET ix == DecodeUint8(decoder, 0)
        argIdx == ix.msg
    IN  IF ix.err = Panic THEN ArgRead(ix.decoder, 0, EmptyArgument, Panic)
        ELSE IF ix.err # NoError
        THEN ArgRead(ix.decoder, 0, EmptyArgument,
                     Errorf("error reading arg index: %v", <<ix.err>>))
        ELSE IF argIdx >= Len(evtFields)
        THEN ArgRead(ix.decoder, argIdx, EmptyArgument,
                     Errorf("invalid arg index %d", <<argIdx>>))
        ELSE LET field == evtFields[argIdx + 1]
                 v == CASE field.DecodeAs = "u8" ->
                             DecodeUint8(ix.decoder, 0)
                        [] field.DecodeAs = "u16" ->
                             DecodeUint16(ix.decoder, 0)
                        [] OTHER -> DecodeUint32(ix.decoder, LittleEndian(<<0, 0, 0, 0>>))
                 res == CASE field.DecodeAs = "u8" -> U8Value(v.msg)
                          [] field.DecodeAs = "u16" -> U16Value(v.msg)
                          [] OTHER -> U32Value(v.msg)
                 arg == [ArgMeta |-> field.ArgMeta, Value |-> NilValue]
             IN  IF v.err = Panic THEN ArgRead(v.decoder, argIdx, arg, Panic)
                 ELSE IF v.err # NoError
                 THEN ArgRead(v.decoder, argIdx, arg,
                              Errorf("error reading argument %s: %v",
                                     <<field.ArgMeta.Name, v.err>>))
                 ELSE ArgRead(v.decoder, argIdx,
                              [arg EXCEPT !.Value = res], NoError)

\* What DecodeArguments returns and leaves behind: the decoder, the array
\* args refers to, the error, and what it has logged.
Assembled(decoder, args, err, logs) ==
    [decoder |-> decoder, args |-> args, err |-> err, logs |-> logs]

\* logger.Errorw and logger.Warnw: what DecodeArguments logs in iteration i.
ErrorLog(i, evtName, err) ==
    [level |-> "error", msg |-> "error reading argument from buffer",
     i |-> i, evtName |-> evtName, err |-> err]

WarnLog(i, evtName) ==
    [level |-> "warn", msg |-> "argument overridden from buffer",
     i |-> i, evtName |-> evtName, err |-> NoError]

RECURSIVE argumentsLoopAborts(_, _, _, _, _, _, _, _)
\* The loop ends at the first argument that cannot be read.
argumentsLoopAborts(decoder, args, logs, i, argnum, evtFields, evtName, eventId) ==
    IF ~(i < argnum) THEN Assembled(decoder, args, NoError, logs)
    ELSE LET r == readArgFromBuff(eventId, decoder, evtFields)
             failed == Append(logs, ErrorLog(i, evtName, r.err))
         IN  IF r.err = Panic THEN Assembled(r.decoder, args, Panic, logs)
             ELSE IF r.err # NoError
             THEN Assembled(r.decoder, args, NoError, failed)
             ELSE IF ~(r.idx < Len(args))
             THEN Assembled(r.decoder, args, Panic, logs)
             ELSE argumentsLoopAborts(
                      r.decoder,
                      [args EXCEPT ![r.idx + 1] = r.arg],
                      IF args[r.idx + 1].Value # NilValue
                      THEN Append(logs, WarnLog(i, evtName))
                      ELSE logs,
                      i + 1, argnum, evtFields, evtName, eventId)

RECURSIVE argumentsLoopKeepsFirst(_, _, _, _, _, _, _, _)
\* An argument read for a slot that holds a value is dropped.
argumentsLoopKeepsFirst(decoder, args, logs, i, argnum, evtFields, evtName, eventId) ==
    IF ~(i < argnum) THEN Assembled(decoder, args, NoError, logs)
    ELSE LET r == readArgFromBuff(eventId, decoder, evtFields)
             failed == Append(logs, ErrorLog(i, evtName, r.err))
         IN  IF r.err = Panic THEN Assembled(r.decoder, args, Panic, logs)
             ELSE IF r.err # NoError
             THEN argumentsLoopKeepsFirst(r.decoder, args, failed, i + 1, argnum,
                                evtFields, evtName, eventId)
             ELSE IF ~(r.idx < Len(args))
             THEN Assembled(r.decoder, args, Panic, logs)
             ELSE argumentsLoopKeepsFirst(
                      r.decoder,
                      IF args[r.idx + 1].Value # NilValue THEN args
                      ELSE [args EXCEPT ![r.idx + 1] = r.arg],
                      IF args[r.idx + 1].Value # NilValue
                      THEN Append(logs, WarnLog(i, evtName))
                      ELSE logs,
                      i + 1, argnum, evtFields, evtName, eventId)

RECURSIVE argumentsLoop(_, _, _, _, _, _, _, _)
\* The first loop of DecodeArguments from i on: argnum reads, each placed
\* at its index unless it failed.
argumentsLoop(decoder, args, logs, i, argnum, evtFields, evtName, eventId) ==
    IF ~(i < argnum) THEN Assembled(decoder, args, NoError, logs)
    ELSE LET r == readArgFromBuff(eventId, decoder, evtFields)
             failed == Append(logs, ErrorLog(i, evtName, r.err))
         IN  IF r.err = Panic THEN Assembled(r.decoder, args, Panic, logs)
             ELSE IF r.err # NoError
             THEN argumentsLoop(r.decoder, args, failed, i + 1, argnum,
                                evtFields, evtName, eventId)
             ELSE IF ~(r.idx < Len(args))
             THEN Assembled(r.decoder, args, Panic, logs)
             ELSE argumentsLoop(
                      r.decoder,
                      [args EXCEPT ![r.idx + 1] = r.arg],
                      IF args[r.idx + 1].Value # NilValue
                      THEN Append(logs, WarnLog(i, evtName))
                      ELSE logs,
                      i + 1, argnum, evtFields, evtName, eventId)

\* The missing arguments get the zero value, and keep the empty metadata.
fillMissingValueOnly(args, evtFields) ==
    [i \in 1..Len(args) |->
        IF i <= Len(evtFields) /\ args[i].Value = NilValue
        THEN [args[i] EXCEPT !.Value = evtFields[i].Zero]
        ELSE args[i]]

\* The loop "Fill missing arguments".
fillMissing(args, evtFields) ==
    [i \in 1..Len(args) |->
        IF i <= Len(evtFields) /\ args[i].Value = NilValue
        THEN [ArgMeta |-> evtFields[i].ArgMeta, Value |-> evtFields[i].Zero]
        ELSE args[i]]

\* decoder.DecodeArguments(args, argnum, evtFields, evtName, eventId);
\* args[i] panics in the second loop when args is shorter than evtFields.
DecodeArguments(decoder, args, argnum, evtFields, evtName, eventId) ==
    LET l == argumentsLoop(decoder, args, <<>>, 0, argnum, evtFields,
                           evtName, eventId)
    IN  IF l.err = Panic THEN l
        ELSE IF Len(evtFields) > Len(args)
        THEN [l EXCEPT !.err = Panic,
                       !.args = fillMissing(@, SubSeq(evtFields, 1, Len(@)))]
        ELSE [l EXCEPT !.args = fillMissing(@, evtFields)]

\* ============================================================ argument parsing
\*
\* ParseArgs, GetArg and NormalizeTimeArgs of package events. An argument is
\* the record [Name, Type, Value]. A value carries its dynamic type:
\* [type |-> "int32", v |-> 5]; a string is the sequence of its characters;
\* NilValue is the nil interface. An event identifier is the name of its
\* constant.

TypedValue(type, v) == [type |-> type, v |-> v]

StringValue(chars) == TypedValue("string", chars)

\* trace.Argument{ArgMeta: trace.ArgMeta{Name: name, Type: type}, Value: value}.
Argument(name, type, value) == [Name |-> name, Type |-> type, Value |-> value]

Digits == <<"0", "1", "2", "3", "4", "5", "6", "7", "8", "9",
            "a", "b", "c", "d", "e", "f">>

RECURSIVE FormatUint(_, _)
\* strconv.FormatUint(i, base): the digits of i, lower-case, without leading
\* zeros.
FormatUint(i, base) ==
    IF i < base THEN <<Digits[i + 1]>>
    ELSE FormatUint(i \div base, base) \o <<Digits[(i % base) + 1]>>

\* The digits are written in base 10.
AppendUintDecimal(dst, i, base) == dst \o FormatUint(i, 10)

\* strconv.AppendUint(dst, i, base).
AppendUint(dst, i, base) == dst \o FormatUint(i, base)

\* The first loop of ParseArgs: every trace.Pointer becomes a string.
pointersToHex(args) ==
    [i \in 1..Len(args) |->
        IF args[i].Value.type = "Pointer"
        THEN [args[i] EXCEPT
                !.Value = StringValue(AppendUint(<<"0", "x">>,
                                                 args[i].Value.v, 16))]
        ELSE args[i]]

\* GetArg(args, argName): the index, counted from 1, of the argument the
\* pointer returned refers to, and 0 for the nil pointer.
GetArg(args, argName) ==
    IF \E i \in 1..Len(args) : args[i].Name = argName
    THEN CHOOSE i \in 1..Len(args) :
             /\ args[i].Name = argName
             /\ \A j \in 1..(i - 1) : args[j].Name # argName
    ELSE 0

\* What the switch of ParseArgs does for the identifier evtID: the name each
\* GetArg call asks for, the type of the assertion, and what is called when
\* it holds.
Case(name, type, helper) == [name |-> name, type |-> type, helper |-> helper]

ParseCases(evtID) ==
    CASE evtID = "MemProtAlert" ->
           << Case("alert", "uint32", "parseMemProtAlert"),
              Case("prot", "int32", "parseMMapProt"),
              Case("prev_prot", "int32", "parseMMapProt") >>
      [] evtID \in {"SysEnter", "SysExit"} ->
           << Case("syscall", "int32", "parseSyscall") >>
      [] evtID = "CapCapable" ->
           << Case("cap", "int32", "parseCapability") >>
      [] evtID \in {"SecurityMmapFile", "DoMmap"} ->
           << Case("prot", "uint64", "parseMMapProt") >>
      [] evtID \in {"Mmap", "Mprotect", "PkeyMprotect"} ->
           << Case("prot", "int32", "parseMMapProt") >>
      [] evtID = "SecurityFileMprotect" ->
           << Case("prot", "int32", "parseMMapProt"),
              Case("prev_prot", "int32", "parseMMapProt") >>
      [] evtID = "Ptrace" ->
           << Case("request", "int64", "parsePtraceRequestArgument") >>
      [] evtID = "Prctl" ->
           << Case("option", "int32", "parsePrctlOption") >>
      [] evtID = "Socketcall" ->
           << Case("call", "int32", "parseSocketcallCall") >>
      [] evtID = "Socket" ->
           << Case("domain", "int32", "parseSocketDomainArgument"),
              Case("type", "int32", "parseSocketType") >>
      [] evtID \in {"SecuritySocketCreate", "SecuritySocketConnect"} ->
           << Case("family", "int32", "parseSocketDomainArgument"),
              Case("type", "int32", "parseSocketType") >>
      [] evtID = "Access" ->
           << Case("mode", "int32", "parseAccessMode") >>
      [] evtID = "Faccessat" ->
           << Case("mode", "int32", "parseAccessMode"),
              Case("flags", "int32", "parseFaccessatFlag") >>
      [] evtID = "Execveat" ->
           << Case("flags", "int32", "parseExecveatFlag") >>
      [] evtID \in {"Open", "Openat", "SecurityFileOpen", "OpenFileNS",
                    "OpenFileMount"} ->
           << Case("flags", "int32", "parseOpenFlagArgument") >>
      [] evtID \in {"Mknod", "Mknodat", "SecurityInodeMknod", "Chmod",
                    "Fchmod", "Fchmodat", "ChmodCommon"} ->
           << Case("mode", "uint16", "parseInodeMode") >>
           \o IF evtID = "Fchmodat"
              THEN << Case("flags", "int32", "parseFchmodatFlag") >>
              ELSE << >>
      [] evtID = "Clone" ->
           << Case("flags", "uint64", "parseCloneFlags") >>
      [] evtID \in {"Bpf", "SecurityBPF"} ->
           << Case("cmd", "int32", "parseBPFCmd") >>
      [] evtID \in {"SecurityKernelReadFile", "SecurityPostReadFile"} ->
           << Case("type", "KernelReadType", "String") >>
      [] evtID = "SchedProcessExec" ->
           << Case("stdin_type", "uint16", "parseInodeMode") >>
      [] evtID = "DirtyPipeSplice" ->
           << Case("in_file_type", "uint16", "parseInodeMode") >>
      [] evtID \in {"SecuritySocketSetsockopt", "Setsockopt", "Getsockopt"} ->
           << Case("level", "int32", "parseSocketLevel"),
              Case("optname", "int32", "parseGetSocketOption") >>
      [] evtID = "BpfAttach" ->
           << Case("prog_type", "int32", "parseBPFProgType"),
              Case("prog_helpers", "[]uint64", "parseBpfHelpersUsage"),
              Case("attach_type", "int32", "parseBpfAttachType") >>
      [] evtID = "SecurityBpfProg" ->
           << Case("type", "int32", "parseBPFProgType"),
              Case("helpers", "[]uint64", "parseBpfHelpersUsage") >>
      [] evtID = "SecurityPathNotify" ->
           << Case("mask", "uint64", "String"),
              Case("obj_type", "uint32", "parseFsNotifyObjType") >>
      [] evtID \in {"SuspiciousSyscallSource", "StackPivot"} ->
           << Case("vma_flags", "uint64", "String") >>
      [] OTHER -> << >>

\* What is called on the argument arg once the assertion holds. The lines
\* written in ParseArgs itself set the type to "string" and the value to the
\* result of a String method. A parse function is handed the pointer to the
\* argument and the value: it writes the type "string" and a string of its
\* own to that argument, or leaves it as it is (effect).
parseHelper(arg, helper, effect) ==
    IF helper = "String" \/ effect = "rewrites"
    THEN [arg EXCEPT !.Type = "string",
                     !.Value = [type |-> "string", v |-> <<helper>>,
                                of |-> arg.Value]]
    ELSE arg

\* The parse function is called whatever the type of the value.
parseSelectedUntyped(args, c, effect) ==
    LET i == GetArg(args, c.name)
    IN  IF i = 0 THEN args
        ELSE [args EXCEPT ![i] = parseHelper(@, c.helper, effect)]

\* if a := GetArg(event.Args, name); a != nil {
\*     if v, ok := a.Value.(T); ok { helper(a, v) } }
parseSelected(args, c, effect) ==
    LET i == GetArg(args, c.name)
    IN  IF i = 0 THEN args
        ELSE IF args[i].Value.type # c.type THEN args
        ELSE [args EXCEPT ![i] = parseHelper(@, c.helper, effect)]

RECURSIVE parseAll(_, _, _)
\* The statements of one case of the switch, one after the other.
parseAll(args, cases, effect) ==
    IF cases = <<>> THEN args
    ELSE parseAll(parseSelected(args, Head(cases), effect), Tail(cases),
                  effect)

\* ParseArgs(event): the event it leaves and the error it returns.
ParseArgs(event, effect) ==
    [event |-> [event EXCEPT
                  !.Args = parseAll(pointersToHex(@),
                                    ParseCases(event.EventID), effect)],
     err |-> NoError]

\* traceetime.BootToEpochNS(ns): the time of boot is added.
BootToEpochNS(ns) == ns + 1000

RECURSIVE normalizeFromSkipsMissing(_, _, _)
\* A name without an argument is passed over.
normalizeFromSkipsMissing(args, timeArgNames, i) ==
    IF i > Len(timeArgNames) THEN [args |-> args, err |-> NoError]
    ELSE LET k == GetArg(args, timeArgNames[i])
         IN  IF k = 0
             THEN normalizeFromSkipsMissing(args, timeArgNames, i + 1)
             ELSE IF args[k].Value = NilValue
             THEN normalizeFromSkipsMissing(args, timeArgNames, i + 1)
             ELSE IF args[k].Value.type # "uint64"
             THEN [args |-> args,
                   err |-> Errorf("argument %s is not uint64, it is %T",
                                  <<timeArgNames[i], args[k].Value.type>>)]
             ELSE normalizeFromSkipsMissing(
                      [args EXCEPT
                         ![k].Value = TypedValue("uint64",
                                                 BootToEpochNS(@.v))],
                      timeArgNames, i + 1)

RECURSIVE normalizeFrom(_, _, _)
\* The loop of NormalizeTimeArgs from the name i on, counted from 1.
normalizeFrom(args, timeArgNames, i) ==
    IF i > Len(timeArgNames) THEN [args |-> args, err |-> NoError]
    ELSE LET k == GetArg(args, timeArgNames[i])
         IN  IF k = 0
             THEN [args |-> args,
                   err |-> Errorf("couldn't find argument %s",
                                  <<timeArgNames[i]>>)]
             ELSE IF args[k].Value = NilValue
             THEN normalizeFrom(args, timeArgNames, i + 1)
             ELSE IF args[k].Value.type # "uint64"
             THEN [args |-> args,
                   err |-> Errorf("argument %s is not uint64, it is %T",
                                  <<timeArgNames[i], args[k].Value.type>>)]
             ELSE normalizeFrom(
                      [args EXCEPT
                         ![k].Value = TypedValue("uint64",
                                                 BootToEpochNS(@.v))],
                      timeArgNames, i + 1)

\* NormalizeTimeArgs(args, timeArgNames): the arguments it leaves and the
\* error it returns.
NormalizeTimeArgs(args, timeArgNames) == normalizeFrom(args, timeArgNames, 1)

\* ------------------------------------------------------------------- state

VARIABLES
    table,        \* the Table: deriveFrom -> deriveTo -> entry
    enabled,      \* what each enabled-predicate returns when called now
    regResult,    \* the error the last Register call returned
    firstReg,     \* the arguments of the first Register call for each pair
    pc,           \* "idle", "loop" (inside DeriveEvent) or "returned"
    event,        \* the base event the pointer of the call refers to
    mem,          \* the backing arrays of the slices
    deriveFns,    \* DeriveEvent's local: the entries of the event's identifier
    pending,      \* the entries of deriveFns the loop has not visited
    derivatives,  \* DeriveEvent's local and first result
    errors,       \* DeriveEvent's local and second result
    calls,        \* per deriveTo, in this call: what its predicate returned,
                  \* and how often its derive function was invoked
    mutations,    \* in-place writes made since the call returned
    decoder,      \* the EbpfDecoder: buffer, cursor, typeDecoder
    call,         \* the last call made on the decoder
    fresh,        \* a decoder made by New with the buffer and the type
                  \* decoder of the last SetBuffer, given the same calls
    freshCall,    \* the last call made on fresh
    sequence,     \* a decoder on which only decode methods are called, with
                  \* the widths of the calls that succeeded
    assembly,     \* the last DecodeArguments call: what it was given and
                  \* what it left
    built,        \* the last call of a function that deriveMultipleEvents
                  \* or deriveSingleEvent built
    conc,         \* DeriveEvent calls running concurrently on one table
    steps,        \* one call of a looping operation, followed iteration
                  \* by iteration
    parsed,       \* the last ParseArgs or NormalizeTimeArgs call: the
                  \* event it was given and what it left
    runner        \* a RunningTracee, the goroutines Start spawned and the
                  \* reader of the readiness channel

deriveVars == <<table, enabled, regResult, firstReg, pc, event, mem,
                deriveFns, pending, derivatives, errors, calls, mutations>>

decoderVars == <<decoder, call, fresh, freshCall>>

\* The variables of the state machines that are looked at on their own.
\* The state of the step-by-step runs, of the argument parsers and of the
\* tracee runner, each followed by its own specification.
laterVars == <<steps, parsed, runner>>

standaloneVars == <<sequence, assembly, built, conc, steps, parsed, runner>>

vars == <<table, enabled, regResult, firstReg, pc, event, mem, deriveFns,
          pending, derivatives, errors, calls, mutations, decoder, call,
          fresh, freshCall, sequence, assembly, built, conc, steps, parsed,
          runner>>

callVars == <<event, mem, deriveFns, pending, derivatives, errors, calls,
              mutations>>

NoCalls == [t \in TargetIDs |-> [pred |-> <<>>, fn |-> 0]]

\* Nothing has been called yet on a state machine looked at on its own.
NotCalled == [op |-> "none"]

StandaloneIdle ==
    /\ sequence = NotCalled
    /\ assembly = NotCalled
    /\ built = NotCalled
    /\ conc = NotCalled
    /\ steps = NotCalled
    /\ parsed = NotCalled
    /\ runner = NotCalled

Init ==
    /\ table = EmptyMap
    /\ enabled \in [PredNames -> BOOLEAN]
    /\ regResult = NoError
    /\ firstReg = EmptyMap
    /\ pc = "idle"
    /\ event = ZeroEvent
    /\ mem = EmptyMem
    /\ deriveFns = EmptyMap
    /\ pending = {}
    /\ derivatives = <<>>
    /\ errors = <<>>
    /\ calls = NoCalls
    /\ mutations = 0
    /\ decoder = New(<<>>, "NewTypeDecoder")
    /\ call = [op |-> "New", arg |-> 0, before |-> decoder, msgBefore |-> 0,
               msg |-> 0, err |-> NoError, ret |-> 0]
    /\ fresh = decoder
    /\ freshCall = call
    /\ StandaloneIdle

\* t.Register(deriveFrom, deriveTo, deriveCondition, deriveLogic), called
\* while no DeriveEvent call is running; the results of the last DeriveEvent
\* call are no longer held.
RegisterCall ==
    \E reg \in Registrations :
        LET r == Register(table, reg[1], reg[2], reg[3], reg[4])
            pair == <<reg[1], reg[2]>>
        IN  /\ pc # "loop"
            /\ table' = r.table
            /\ regResult' = r.err
            /\ firstReg' = IF pair \in DOMAIN firstReg THEN firstReg
                           ELSE firstReg @@ (pair :> Entry(reg[4], reg[3]))
            /\ pc' = "idle"
            /\ event' = ZeroEvent
            /\ mem' = EmptyMem
            /\ deriveFns' = EmptyMap
            /\ pending' = {}
            /\ derivatives' = <<>>
            /\ errors' = <<>>
            /\ calls' = NoCalls
            /\ mutations' = 0
            /\ UNCHANGED enabled
            /\ UNCHANGED <<decoderVars, standaloneVars>>

\* The result of an enabled-predicate changes (the rule is toggled).
Toggle ==
    \E p \in PredNames :
        /\ enabled' = [enabled EXCEPT ![p] = ~@]
        /\ UNCHANGED <<table, regResult, firstReg, pc>>
        /\ UNCHANGED callVars
        /\ UNCHANGED <<decoderVars, standaloneVars>>

\* t.DeriveEvent(event) is called, up to the loop: lines 46 to 48. The
\* result of the last Register call is no longer held.
DeriveEventBegin ==
    \E id \in BaseIDs, n \in -1..MaxPolicies :
        LET b == getTestEvent(id, n)
            lk == lookupDeriveFns(table, id)
        IN  /\ pc # "loop"
            /\ pc' = "loop"
            /\ event' = b.event
            /\ mem' = b.mem
            /\ table' = lk.table
            /\ deriveFns' = lk.deriveFns
            /\ pending' = DOMAIN lk.deriveFns
            /\ derivatives' = <<>>
            /\ errors' = <<>>
            /\ calls' = NoCalls
            /\ mutations' = 0
            /\ regResult' = NoError
            /\ UNCHANGED <<enabled, firstReg>>
            /\ UNCHANGED <<decoderVars, standaloneVars>>

\* One iteration of the loop over deriveFns, in the order the map gives.
DeriveEventLoop ==
    \E id \in pending :
        LET r == deriveLoopBody(id, deriveFns[id], enabled,
                                [st |-> State(event, mem),
                                 derivatives |-> derivatives,
                                 errors |-> errors,
                                 pending |-> pending,
                                 calls |-> calls])
        IN  /\ pc = "loop"
            /\ event' = r.st.event
            /\ mem' = r.st.mem
            /\ derivatives' = r.derivatives
            /\ errors' = r.errors
            /\ pending' = r.pending
            /\ calls' = r.calls
            /\ UNCHANGED <<table, enabled, regResult, firstReg, pc, deriveFns,
                           mutations>>
            /\ UNCHANGED <<decoderVars, standaloneVars>>

\* The loop is over: return derivatives, errors.
DeriveEventReturn ==
    /\ pc = "loop"
    /\ pending = {}
    /\ pc' = "returned"
    /\ UNCHANGED <<table, enabled, regResult, firstReg>>
    /\ UNCHANGED callVars
    /\ UNCHANGED <<decoderVars, standaloneVars>>

\* The MatchedPolicies slice of the base event (k = 0) or of the k-th
\* derived event.
PoliciesOf(k) ==
    IF k = 0 THEN event.MatchedPolicies ELSE derivatives[k].MatchedPolicies

\* A later pipeline stage writes one element of the MatchedPolicies list of
\* one of the events in place.
MutateMatchedPolicies ==
    \E k \in 0..Len(derivatives) :
        /\ pc = "returned"
        /\ mutations < MaxMutations
        /\ PoliciesOf(k) # 0
        /\ \E i \in 1..Len(mem[PoliciesOf(k)]) :
               mem' = [mem EXCEPT ![PoliciesOf(k)][i] = "tainted"]
        /\ mutations' = mutations + 1
        /\ UNCHANGED <<table, enabled, regResult, firstReg, pc, event,
                       deriveFns, pending, derivatives, errors, calls>>
        /\ UNCHANGED <<decoderVars, standaloneVars>>

Next ==
    \/ RegisterCall
    \/ Toggle
    \/ DeriveEventBegin
    \/ DeriveEventLoop
    \/ DeriveEventReturn
    \/ MutateMatchedPolicies

Spec == Init /\ [][Next]_vars

\* ------------------------------------------------------- decoder: actions

\* The record of a call: the operation, its argument, the decoder and the
\* destination before it, and the destination, the error and the result
\* after it.
Call(op, arg, before, msgBefore, msg, err, ret) ==
    [op |-> op, arg |-> arg, before |-> before, msgBefore |-> msgBefore,
     msg |-> msg, err |-> err, ret |-> ret]

NoCall(d) == Call("New", 0, d, 0, 0, NoError, 0)

\* No event is derived and nothing is registered.
DeriveIdle ==
    /\ table = EmptyMap
    /\ enabled = [p \in PredNames |-> TRUE]
    /\ regResult = NoError
    /\ firstReg = EmptyMap
    /\ pc = "idle"
    /\ event = ZeroEvent
    /\ mem = EmptyMem
    /\ deriveFns = EmptyMap
    /\ pending = {}
    /\ derivatives = <<>>
    /\ errors = <<>>
    /\ calls = NoCalls
    /\ mutations = 0

\* The decoder of the decoder state machine is not used.
DecoderIdle ==
    /\ decoder = New(<<>>, "NewTypeDecoder")
    /\ call = NoCall(decoder)
    /\ fresh = decoder
    /\ freshCall = call

\* The decoder is constructed: New(rawBuffer, typeDecoder). No event is
\* derived while the decoder is looked at.
DecoderInit ==
    /\ DeriveIdle
    /\ \E c \in Constructions :
           /\ decoder = New(c[1], c[2])
           /\ fresh = New(c[1], c[2])
    /\ call = NoCall(decoder)
    /\ freshCall = NoCall(fresh)
    /\ StandaloneIdle

\* A panic unwinds the caller: the decoder is not used after it. Nor is it
\* followed further once its cursor is more than MaxMove before the buffer,
\* where every decode panics.
Usable == call.err # Panic /\ decoder.cursor >= -MaxMove

\* A Decode call with the results r on the decoder and rf on the decoder
\* constructed by New that has seen the same calls.
Decoded(op, arg, msgBefore, r, rf) ==
    /\ Usable
    /\ decoder' = r.decoder
    /\ call' = Call(op, arg, decoder, msgBefore, r.msg, r.err, 0)
    /\ fresh' = rf.decoder
    /\ freshCall' = Call(op, arg, fresh, msgBefore, rf.msg, rf.err, 0)
    /\ UNCHANGED <<deriveVars, standaloneVars>>

\* decoder.SetBuffer(newBuffer); the other decoder is constructed anew.
SetBufferCall ==
    \E newBuffer \in ResetBuffers :
        /\ call.err # Panic
        /\ decoder' = SetBuffer(decoder, newBuffer)
        /\ call' = Call("SetBuffer", newBuffer, decoder, 0, 0, NoError, 0)
        /\ fresh' = New(newBuffer, decoder.typeDecoder)
        /\ freshCall' = NoCall(fresh')
        /\ UNCHANGED <<deriveVars, standaloneVars>>

\* decoder.MoveCursor(n).
MoveCursorCall ==
    /\ Usable
    /\ \E n \in MoveArgs(decoder) :
           LET r == MoveCursor(decoder, n)
               rf == MoveCursor(fresh, n)
           IN  /\ r.decoder.cursor >= -MaxMove \/ n = MaxInt
               /\ decoder' = r.decoder
               /\ call' = Call("MoveCursor", n, decoder, 0, 0, NoError, r.ret)
               /\ fresh' = rf.decoder
               /\ freshCall' =
                      Call("MoveCursor", n, fresh, 0, 0, NoError, rf.ret)
               /\ UNCHANGED <<deriveVars, standaloneVars>>

\* The calls of the fixed-width primitives and of the composite decoders,
\* each with a destination that holds an earlier value.
DecodeUint8Call ==
    Decoded("DecodeUint8", 0, 170,
            DecodeUint8(decoder, 170), DecodeUint8(fresh, 170))

DecodeInt8Call ==
    Decoded("DecodeInt8", 0, -86,
            DecodeInt8(decoder, -86), DecodeInt8(fresh, -86))

DecodeUint16Call ==
    Decoded("DecodeUint16", 0, 170,
            DecodeUint16(decoder, 170), DecodeUint16(fresh, 170))

DecodeUint16BigEndianCall ==
    Decoded("DecodeUint16BigEndian", 0, 170,
            DecodeUint16BigEndian(decoder, 170), DecodeUint16BigEndian(fresh, 170))

DecodeInt16Call ==
    Decoded("DecodeInt16", 0, 170,
            DecodeInt16(decoder, 170), DecodeInt16(fresh, 170))

DecodeUint32Call ==
    Decoded("DecodeUint32", 0, OldNum(4),
            DecodeUint32(decoder, OldNum(4)), DecodeUint32(fresh, OldNum(4)))

DecodeUint32BigEndianCall ==
    Decoded("DecodeUint32BigEndian", 0, OldNum(4),
            DecodeUint32BigEndian(decoder, OldNum(4)), DecodeUint32BigEndian(fresh, OldNum(4)))

DecodeInt32Call ==
    Decoded("DecodeInt32", 0, OldSigned(4),
            DecodeInt32(decoder, OldSigned(4)), DecodeInt32(fresh, OldSigned(4)))

DecodeUint64Call ==
    Decoded("DecodeUint64", 0, OldNum(8),
            DecodeUint64(decoder, OldNum(8)), DecodeUint64(fresh, OldNum(8)))

DecodeInt64Call ==
    Decoded("DecodeInt64", 0, OldSigned(8),
            DecodeInt64(decoder, OldSigned(8)), DecodeInt64(fresh, OldSigned(8)))

DecodeBoolCall ==
    Decoded("DecodeBool", 0, TRUE,
            DecodeBool(decoder, TRUE), DecodeBool(fresh, TRUE))

DecodeContextCall ==
    Decoded("DecodeContext", 0, OldContext,
            DecodeContext(decoder, OldContext), DecodeContext(fresh, OldContext))

DecodeSlimCredCall ==
    Decoded("DecodeSlimCred", 0, OldSlimCred,
            DecodeSlimCred(decoder, OldSlimCred), DecodeSlimCred(fresh, OldSlimCred))

DecodeChunkMetaCall ==
    Decoded("DecodeChunkMeta", 0, OldChunkMeta,
            DecodeChunkMeta(decoder, OldChunkMeta), DecodeChunkMeta(fresh, OldChunkMeta))

DecodeVfsFileMetaCall ==
    Decoded("DecodeVfsFileMeta", 0, OldVfsFileMeta,
            DecodeVfsFileMeta(decoder, OldVfsFileMeta), DecodeVfsFileMeta(fresh, OldVfsFileMeta))

DecodeKernelModuleMetaCall ==
    Decoded("DecodeKernelModuleMeta", 0, OldKernelModuleMeta,
            DecodeKernelModuleMeta(decoder, OldKernelModuleMeta), DecodeKernelModuleMeta(fresh, OldKernelModuleMeta))

DecodeBpfObjectMetaCall ==
    Decoded("DecodeBpfObjectMeta", 0, OldBpfObjectMeta,
            DecodeBpfObjectMeta(decoder, OldBpfObjectMeta), DecodeBpfObjectMeta(fresh, OldBpfObjectMeta))

DecodeMprotectWriteMetaCall ==
    Decoded("DecodeMprotectWriteMeta", 0, OldMprotectWriteMeta,
            DecodeMprotectWriteMeta(decoder, OldMprotectWriteMeta), DecodeMprotectWriteMeta(fresh, OldMprotectWriteMeta))

\* decoder.DecodeBytes(msg, size) with msg of size bytes, one less or one
\* more.
DecodeBytesCall ==
    /\ Usable
    /\ \E size \in Sizes(decoder), d \in {-1, 0, 1} :
           LET msg == OldBytes(IF size + d < 0 THEN 0 ELSE size + d)
           IN  Decoded("DecodeBytes", size, msg,
                       DecodeBytes(decoder, msg, size),
                       DecodeBytes(fresh, msg, size))

\* decoder.ReadBytesLen(len).
ReadBytesLenCall ==
    /\ Usable
    /\ \E len \in Sizes(decoder) :
           Decoded("ReadBytesLen", len, Nil,
                   ReadBytesLen(decoder, len), ReadBytesLen(fresh, len))

\* decoder.DecodeInt32Array(msg, size) with msg of size elements.
DecodeInt32ArrayCall ==
    \E size \in 0..MaxMove :
        LET msg == [i \in 1..size |-> OldSigned(4)]
        IN  Decoded("DecodeInt32Array", size, msg,
                    DecodeInt32Array(decoder, msg, size),
                    DecodeInt32Array(fresh, msg, size))

\* decoder.DecodeUint64Array(msg) with *msg empty or of one element.
DecodeUint64ArrayCall ==
    \E msg \in {<<>>, <<OldNum(8)>>} :
        Decoded("DecodeUint64Array", 0, msg,
                DecodeUint64Array(decoder, msg),
                DecodeUint64Array(fresh, msg))

DecoderNext ==
    \/ SetBufferCall
    \/ MoveCursorCall
    \/ DecodeUint8Call
    \/ DecodeInt8Call
    \/ DecodeUint16Call
    \/ DecodeUint16BigEndianCall
    \/ DecodeInt16Call
    \/ DecodeUint32Call
    \/ DecodeUint32BigEndianCall
    \/ DecodeInt32Call
    \/ DecodeUint64Call
    \/ DecodeInt64Call
    \/ DecodeBoolCall
    \/ DecodeContextCall
    \/ DecodeSlimCredCall
    \/ DecodeChunkMetaCall
    \/ DecodeVfsFileMetaCall
    \/ DecodeKernelModuleMetaCall
    \/ DecodeBpfObjectMetaCall
    \/ DecodeMprotectWriteMetaCall
    \/ DecodeBytesCall
    \/ ReadBytesLenCall
    \/ DecodeInt32ArrayCall
    \/ DecodeUint64ArrayCall

SpecDecoder == DecoderInit /\ [][DecoderNext]_vars

\* ------------------------------------------------------------ the claims

\* Inside a DeriveEvent call or after its return, before a later stage has
\* written to any list.
InCall == pc \in {"loop", "returned"} /\ mutations = 0

\* The entries of the call's identifier whose predicate returned TRUE.
EnabledInCall == {t \in DOMAIN deriveFns : calls[t].pred = <<TRUE>>}

\* The entries whose derive function was invoked in the call.
Invoked == {t \in DOMAIN deriveFns : calls[t].fn > 0}

RuleOf(t) == Rule(deriveFns[t].DeriveFunction)

\* The fields of the schema a built rule derives into.
FieldsOf(r) == getEventDefinition(r.id).Fields

\* The tuples the argument function of a built rule hands over.
TuplesOf(r) ==
    IF r.kind = "func" \/ r.args.nil THEN <<>>
    ELSE IF r.kind = "single" THEN <<r.args.elems>> ELSE r.args.elems

GoodTuples(r) == SelectSeq(TuplesOf(r), LAMBDA tu : Len(tu) = Len(FieldsOf(r)))
BadTuples(r) == SelectSeq(TuplesOf(r), LAMBDA tu : Len(tu) # Len(FieldsOf(r)))

\* The errors the argument function of a rule reports itself.
OwnErrs(r) ==
    IF r.kind = "single" THEN (IF r.err = NoError THEN <<>> ELSE <<r.err>>)
    ELSE r.errs

\* What one invocation of a rule returns: so many events, so many errors.
EventCount(r) == IF r.kind = "func" THEN Len(r.events) ELSE Len(GoodTuples(r))
ErrCount(r) == Len(OwnErrs(r)) + Len(BadTuples(r))

\* The identifier of the events a rule returns, 0 for a hand-written rule
\* that returns none (in this set of rules no two rules registered under one
\* deriveFrom return events of one identifier).
OutID(r) ==
    IF r.kind # "func" THEN r.id
    ELSE IF r.events = <<>> THEN 0 ELSE r.events[1].EventID

\* The events and the errors DeriveEvent returned for the entry t.
EventsFrom(t) == SelectSeq(derivatives, LAMBDA e : e.EventID = OutID(RuleOf(t)))
ErrorsFrom(t) == SelectSeq(errors, LAMBDA e : e.id = t)

RECURSIVE Sum(_, _)
Sum(f, S) ==
    IF S = {} THEN 0
    ELSE LET x == CHOOSE y \in S : TRUE IN f[x] + Sum(f, S \ {x})

\* C1: Derivation independence. When a DeriveEvent call has returned, the
\* predicate of every entry registered under the base event's identifier was
\* evaluated, and every entry whose predicate returned true had its derive
\* function invoked exactly once, whatever the order of the visits and
\* whatever the other rules returned; and when the rules that ran are the
\* always-failing rule and the rule that produces one event (with or without
\* the rule that derives nothing, as in Test_DeriveEvent), the call returns
\* exactly that one event and exactly the one error, wrapped with the
\* identifier the failing rule is registered under.
C1_DerivationIndependence ==
    pc = "returned" =>
        /\ \A t \in DOMAIN deriveFns :
               /\ Len(calls[t].pred) = 1
               /\ calls[t].pred[1] => calls[t].fn = 1
        /\ ( /\ {deriveFns[t].DeriveFunction : t \in EnabledInCall}
                    \in { {"alwaysDeriveError", "deriveOne"},
                          {"alwaysDeriveError", "deriveOne", "noDerivation"} }
             /\ mutations = 0 )
           => /\ derivatives = <<[ZeroEvent EXCEPT !.EventID = deriveEventID]>>
              /\ errors = <<[kind |-> "DeriveError", id |-> failEventID,
                             err |-> RuleError("derive error")]>>

C1_Witness ==
    /\ pc = "returned"
    /\ {deriveFns[t].DeriveFunction : t \in Invoked}
           = {"alwaysDeriveError", "deriveOne"}
    /\ Len(derivatives) = 1
    /\ Len(errors) = 1

\* C2: When a DeriveEvent call has returned, the errors it returns are, for
\* each enabled rule, the errors that rule returned, each exactly once and
\* wrapped with the identifier the rule is registered under, and nothing
\* else; the number of errors is the sum of the error counts of the enabled
\* rules and the number of events the sum of their event counts.
C2_AllErrorsAllEvents ==
    pc = "returned" =>
        /\ Len(errors) =
               Sum([t \in EnabledInCall |-> ErrCount(RuleOf(t))], EnabledInCall)
        /\ Len(derivatives) =
               Sum([t \in EnabledInCall |-> EventCount(RuleOf(t))], EnabledInCall)
        /\ \A i \in 1..Len(errors) :
               errors[i].kind = "DeriveError" /\ errors[i].id \in EnabledInCall
        /\ \A t \in EnabledInCall :
               LET own == OwnErrs(RuleOf(t))
                   got == ErrorsFrom(t)
               IN  /\ Len(got) = ErrCount(RuleOf(t))
                   /\ \A i \in 1..Len(own) : got[i].err = own[i]
                   /\ \A i \in (Len(own) + 1)..Len(got) :
                          got[i].err.kind = "UnexpectedArgumentCount"

C2_Witness ==
    /\ pc = "returned"
    /\ Cardinality(EnabledInCall) >= 2
    /\ \E t \in EnabledInCall : ErrCount(RuleOf(t)) >= 2
    /\ \E t \in EnabledInCall : EventCount(RuleOf(t)) >= 1
    /\ Len(errors) >= 3

\* The entries whose rule is built by deriveMultipleEvents or
\* deriveSingleEvent, and so returns events made by buildDerivedEvent.
BuiltRules == {t \in DOMAIN deriveFns : RuleOf(t).kind # "func"}

\* C3: Schema-mismatch isolation. For every enabled rule built with
\* deriveMultipleEvents (or deriveSingleEvent), when the call has returned:
\* the rule's events are as many as its tuples of the schema's length, each
\* with as many arguments as the schema has fields (no event comes from a
\* tuple of another length, fewer or more values), and each tuple of another
\* length gives one UnexpectedArgumentCount error that names the schema, the
\* expected and the given count, wherever in the list the tuple stands. So a
\* rule with one tuple of a wrong length and one of the right length yields
\* exactly one event and exactly one UnexpectedArgumentCount error.
C3_SchemaMismatchIsolation ==
    pc = "returned" =>
        \A t \in EnabledInCall \cap BuiltRules :
            LET r == RuleOf(t)
                n == Len(FieldsOf(r))
                evs == EventsFrom(t)
                errs == ErrorsFrom(t)
                own == Len(OwnErrs(r))
                bad == BadTuples(r)
            IN  /\ Len(evs) = Len(GoodTuples(r))
                /\ \A k \in 1..Len(evs) :
                       evs[k].ArgsNum = n /\ Len(mem[evs[k].Args]) = n
                /\ Len(errs) = own + Len(bad)
                /\ \A i \in 1..Len(bad) :
                       errs[own + i].err =
                           [kind |-> "UnexpectedArgumentCount",
                            name |-> getEventDefinition(r.id).Name,
                            expected |-> n, given |-> Len(bad[i])]

C3_Witness ==
    /\ pc = "returned"
    /\ \E t \in EnabledInCall \cap BuiltRules :
           /\ Len(GoodTuples(RuleOf(t))) = 1
           /\ Len(BadTuples(RuleOf(t))) = 1
           /\ Len(BadTuples(RuleOf(t))[1]) < Len(FieldsOf(RuleOf(t)))
           /\ OwnErrs(RuleOf(t)) = <<>>
           /\ Len(EventsFrom(t)) = 1
           /\ Len(ErrorsFrom(t)) = 1
           /\ ErrorsFrom(t)[1].err.kind = "UnexpectedArgumentCount"

\* The derived events that buildDerivedEvent made, by their place in
\* derivatives.
Built ==
    {k \in 1..Len(derivatives) :
        \E t \in Invoked \cap BuiltRules :
            derivatives[k].EventID = OutID(RuleOf(t))}

\* C4: Every event made by buildDerivedEvent equals the base event in every
\* field but EventID, EventName, Args, ArgsNum, ReturnValue and
\* StackAddresses (with the lists compared by their contents, as
\* TestNewEvent compares them); its EventID and EventName are the schema's,
\* its ReturnValue is 0, its StackAddresses is the one-element list holding
\* 0, and its ArgsNum is the number of fields of the schema.
C4_DerivedEventFields ==
    InCall =>
        \A k \in Built :
            LET de == derivatives[k]
                base == Deep(event, mem)
                def == getEventDefinition(de.EventID)
                temp == [Deep(de, mem) EXCEPT
                            !.EventName = base.EventName,
                            !.EventID = base.EventID,
                            !.Args = base.Args,
                            !.ArgsNum = base.ArgsNum,
                            !.StackAddresses = base.StackAddresses,
                            !.ReturnValue = base.ReturnValue]
            IN  /\ temp = base
                /\ de.EventName = def.Name
                /\ de.ReturnValue = 0
                /\ Contents(mem, de.StackAddresses)
                       = [nil |-> FALSE, elems |-> <<0>>]
                /\ de.ArgsNum = Len(def.Fields)

C4_Witness ==
    /\ InCall
    /\ \E k \in Built :
           /\ derivatives[k].EventID # event.EventID
           /\ derivatives[k].ReturnValue # event.ReturnValue
           /\ derivatives[k].ArgsNum = 2
           /\ derivatives[k].Timestamp = event.Timestamp
           /\ derivatives[k].PoliciesVersion = event.PoliciesVersion
           /\ event.MatchedPolicies # 0
           /\ Len(Contents(mem, event.MatchedPolicies).elems) >= 1
           /\ Contents(mem, derivatives[k].MatchedPolicies)
                  = Contents(mem, event.MatchedPolicies)

\* C5: The argument list of every event made by buildDerivedEvent from a
\* tuple of N values and a schema of N fields has exactly N entries, and its
\* i-th entry holds the i-th field's name and type with the i-th value of
\* the tuple: the k-th event of a rule comes from its k-th tuple of the
\* schema's length, and nothing of the base event's arguments is in it.
C5_ArgsInSchemaOrder ==
    pc \in {"loop", "returned"} =>
        \A t \in Invoked \cap BuiltRules :
            LET r == RuleOf(t)
                fields == FieldsOf(r)
                evs == EventsFrom(t)
            IN  \A k \in 1..Len(evs) :
                    LET args == mem[evs[k].Args]
                        tuple == GoodTuples(r)[k]
                    IN  /\ Len(args) = Len(fields)
                        /\ Len(args) = Len(tuple)
                        /\ \A i \in 1..Len(args) :
                               /\ args[i].ArgMeta.Name = fields[i].Name
                               /\ args[i].ArgMeta.Type = fields[i].Type
                               /\ args[i].Value = tuple[i]
                        /\ evs[k].Args # event.Args

C5_Witness ==
    /\ pc = "returned"
    /\ \E k \in Built :
           /\ Len(mem[derivatives[k].Args]) = 2
           /\ mem[derivatives[k].Args][1].Value = 3
           /\ mem[derivatives[k].Args][2].Value = 4
           /\ mem[derivatives[k].Args][2].ArgMeta = ArgMeta("arg2", "string")

\* The MatchedPolicies list of the base event (k = 0) or of the k-th derived
\* event, in the memory m.
PolicyList(k, m) == Contents(m, PoliciesOf(k))

\* The events, the base event among them, whose MatchedPolicies list this
\* step changes.
PoliciesChanged ==
    {k \in {0} \cup Built : PolicyList(k, mem') # PolicyList(k, mem)}

\* C6: No aliasing across derived events. Until a later stage writes, every
\* event made by buildDerivedEvent holds a MatchedPolicies list with the
\* contents of the base event's list, in an array of its own when the list is
\* not nil; and an in-place write to the list of one event (a derived event or
\* the base event) changes the list of that event only: the lists of the
\* other derived events and of the base event stay as they were.
C6_NoAliasing ==
    /\ [](InCall =>
            \A k \in Built :
                /\ PolicyList(k, mem) = PolicyList(0, mem)
                /\ PoliciesOf(0) # 0 =>
                       /\ PoliciesOf(k) # PoliciesOf(0)
                       /\ \A j \in Built \ {k} : PoliciesOf(j) # PoliciesOf(k))
    /\ [][mutations' > mutations => Cardinality(PoliciesChanged) <= 1]_vars

C6_Witness ==
    /\ pc = "returned"
    /\ mutations = 1
    /\ \E j, k \in Built :
           /\ j # k
           /\ PolicyList(j, mem).elems[1] = "tainted"
           /\ PolicyList(k, mem).elems = SubSeq(PolicyNames, 1, 2)
           /\ PolicyList(0, mem).elems = SubSeq(PolicyNames, 1, 2)

\* C7: Derivation leaves the base event unmodified. Inside a DeriveEvent
\* call and when it has returned (until a later stage writes), the base
\* event, with the contents of its Args, StackAddresses and MatchedPolicies
\* lists, is the event that was handed to the call, whichever rules have run
\* so far: every rule of the call sees the same base event.
C7_BaseEventUnmodified ==
    InCall =>
        \E n \in -1..MaxPolicies :
            LET b == getTestEvent(event.EventID, n)
            IN  Deep(event, mem) = Deep(b.event, b.mem)

C7_Witness ==
    /\ pc = "returned"
    /\ mutations = 0
    /\ Cardinality(Invoked \cap BuiltRules) >= 2
    /\ Len(derivatives) >= 2
    /\ Deep(event, mem).StackAddresses.elems = <<4444>>
    /\ Deep(event, mem).ReturnValue = 1
    /\ Len(Deep(event, mem).Args.elems) = 1
    /\ Len(Deep(event, mem).MatchedPolicies.elems) >= 1

\* The (deriveFrom, deriveTo) pairs the table t holds.
Pairs(t) == {<<f, to>> \in BaseIDs \X TargetIDs : f \in DOMAIN t /\ to \in DOMAIN t[f]}

\* C8: Double-registration rejection. A Register call for a pair the table
\* holds returns the AlreadyRegistered error of that pair and leaves the
\* table as it was; a Register call for any other pair returns no error and
\* adds that pair alone, every other entry staying as it was. So at any time
\* the table holds exactly the pairs Register was called for, each with the
\* derive function and the predicate of the first call for it.
C8_DoubleRegistration ==
    /\ [](/\ Pairs(table) = DOMAIN firstReg
          /\ \A pr \in Pairs(table) : table[pr[1]][pr[2]] = firstReg[pr]
          /\ regResult # NoError =>
                 /\ regResult.kind = "AlreadyRegistered"
                 /\ <<regResult.from, regResult.to>> \in Pairs(table))
    /\ [][/\ (regResult' # NoError /\ regResult' # regResult) =>
                 /\ table' = table
                 /\ <<regResult'.from, regResult'.to>> \in Pairs(table)
          /\ table' # table =>
                 /\ regResult' = NoError
                 /\ Cardinality(Pairs(table') \ Pairs(table)) = 1
                 /\ \A pr \in Pairs(table) :
                        /\ pr \in Pairs(table')
                        /\ table'[pr[1]][pr[2]] = table[pr[1]][pr[2]]]_vars

C8_Witness ==
    /\ regResult = [kind |-> "AlreadyRegistered", from |-> testEventID,
                    to |-> deriveEventID]
    /\ table[testEventID][deriveEventID]
           = [DeriveFunction |-> "deriveOne", Enabled |-> "pB"]
    /\ Cardinality(Pairs(table)) >= 2

\* C9: The enabled-predicate is evaluated anew in every DeriveEvent call:
\* for every entry the loop of the call has visited, the predicate was
\* called exactly once in this call, the derive function was invoked (once)
\* if and only if that call of the predicate returned true, and an entry
\* whose predicate returned false has no event and no error among the
\* results. What the predicate returned before, in an earlier call or for
\* another entry of the same call, does not matter.
C9_PredicateNotCached ==
    pc \in {"loop", "returned"} =>
        /\ \A t \in DOMAIN deriveFns \ pending :
               /\ Len(calls[t].pred) = 1
               /\ calls[t].fn = (IF calls[t].pred[1] THEN 1 ELSE 0)
               /\ ~calls[t].pred[1] =>
                      /\ ErrorsFrom(t) = <<>>
                      /\ \A k \in 1..Len(derivatives) :
                             derivatives[k].EventID # OutID(RuleOf(t))
        /\ \A t \in TargetIDs \ (DOMAIN deriveFns \ pending) :
               calls[t] = [pred |-> <<>>, fn |-> 0]

\* One predicate, called for two entries of one call, returned true for the
\* one and false for the other: the rule was toggled in between.
C9_Witness ==
    /\ pc = "returned"
    /\ \E t, u \in DOMAIN deriveFns :
           /\ deriveFns[t].Enabled = deriveFns[u].Enabled
           /\ calls[t].pred = <<TRUE>> /\ calls[t].fn = 1
           /\ calls[u].pred = <<FALSE>> /\ calls[u].fn = 0
           /\ ErrCount(RuleOf(u)) > 0
           /\ enabled[deriveFns[t].Enabled]

\* C10: For a base event whose identifier Register was never called for (the
\* table may be empty or hold other identifiers), DeriveEvent returns no
\* derived event and no error, calls no predicate and no derive function,
\* and the table holds no entry for the identifier afterwards.
C10_NoEntriesNothingDerived ==
    (pc \in {"loop", "returned"}
        /\ \A pr \in DOMAIN firstReg : pr[1] # event.EventID)
    => /\ derivatives = <<>>
       /\ errors = <<>>
       /\ calls = NoCalls
       /\ pending = {}
       /\ event.EventID \notin DOMAIN table
       /\ Pairs(table) = DOMAIN firstReg

C10_Witness ==
    /\ pc = "returned"
    /\ event.EventID \notin DOMAIN table
    /\ table # EmptyMap
    /\ \E p \in PredNames : enabled[p]
    /\ derivatives = <<>>
    /\ errors = <<>>

\* The rules built by deriveSingleEvent or deriveMultipleEvents whose
\* argument function returns nil arguments.
NilArgsRules == {t \in Invoked : RuleOf(t).kind # "func" /\ RuleOf(t).args.nil}

\* C11: Nil arguments, no event. When a DeriveEvent call has returned, a rule
\* built by deriveSingleEvent whose argument function returned nil arguments
\* has contributed no event and, as its only error, the error the argument
\* function returned (none when it returned none); a rule built by
\* deriveMultipleEvents whose argument function returned a nil tuple list has
\* contributed no event and all the errors the function returned, in order.
\* The errors arrive wrapped with the identifier the rule is registered
\* under; a call in which only such rules ran returns no event at all.
C11_NilArgsNoEvent ==
    pc = "returned" =>
        /\ \A t \in NilArgsRules :
               /\ EventsFrom(t) = <<>>
               /\ ErrorsFrom(t) =
                      [i \in 1..Len(OwnErrs(RuleOf(t))) |->
                          [kind |-> "DeriveError", id |-> t,
                           err |-> OwnErrs(RuleOf(t))[i]]]
        /\ (Invoked = NilArgsRules) => derivatives = <<>>

C11_Witness ==
    /\ pc = "returned"
    /\ {deriveFns[t].DeriveFunction : t \in Invoked}
           = {"failTwo", "singleNilErr"}
    /\ derivatives = <<>>
    /\ Len(errors) = 3

\* ------------------------------------------------- the claims: the decoder

Unsigned8 == {"DecodeUint8", "DecodeInt8", "DecodeBool"}
Width16 == {"DecodeUint16", "DecodeUint16BigEndian", "DecodeInt16"}
Width32 == {"DecodeUint32", "DecodeUint32BigEndian", "DecodeInt32"}
Width64 == {"DecodeUint64", "DecodeInt64"}

\* The fixed-width decode primitives and the width of each in bytes.
Primitives == Unsigned8 \cup Width16 \cup Width32 \cup Width64

Width(op) ==
    IF op \in Unsigned8 THEN 1 ELSE IF op \in Width16 THEN 2
    ELSE IF op \in Width32 THEN 4 ELSE 8

\* Buffer length minus cursor, before the last call.
Remaining == Len(call.before.buffer) - call.before.cursor

\* Before the last call the cursor was a position of the buffer.
AtPosition == call.before.cursor \in 0..Len(call.before.buffer)

\* The last call returned a BufferTooShort error with these counts and left
\* the cursor, the buffer and the destination as they were.
FailedShort(expected) ==
    /\ call.err.kind = "ErrBufferTooShort"
    /\ call.err.expected = expected
    /\ call.err.got = Remaining
    /\ decoder = call.before
    /\ call.msg = call.msgBefore

\* C12: Short-buffer safety. A fixed-width decode primitive called when
\* fewer bytes than its width remain after the cursor (buffer length minus
\* cursor is below the width) returns a BufferTooShort error whose expected
\* count is the width and whose actual count is buffer length minus cursor,
\* leaves the cursor unchanged and does not write the destination; it does
\* not panic, so it reads no byte outside the buffer.
C12_ShortBufferSafety ==
    (call.op \in Primitives /\ Remaining < Width(call.op))
        => FailedShort(Width(call.op))

\* C12, where the cursor is a position of the buffer (0 <= cursor <= length)
\* when the primitive is called: the statement of C12.
C12_ShortBufferSafetyAtPositions ==
    (call.op \in Primitives /\ AtPosition /\ Remaining < Width(call.op))
        => FailedShort(Width(call.op))

\* A primitive of each width was called with exactly width - 1 bytes left.
C12_Witness ==
    /\ call.op = "DecodeUint64"
    /\ AtPosition
    /\ Remaining = 7
    /\ call.err.kind = "ErrBufferTooShort"

\* The byte buffer[cursor + i] of the buffer before the last call.
ByteAt(i) == call.before.buffer[call.before.cursor + i + 1]

RECURSIVE AddsToPower(_, _, _, _, _)
\* The sum of the w-digit values u and v is 256^w: digit by digit from the
\* exponent i on, with the carry c.
AddsToPower(u, v, w, i, c) ==
    IF i = w THEN c = 1
    ELSE /\ (u[i] + v[i] + c) % 256 = 0
         /\ AddsToPower(u, v, w, i + 1, (u[i] + v[i] + c) \div 256)

\* msg is the little-endian value of the w bytes at the cursor, as a signed
\* number of w bytes: u itself below 2^(8w-1), and u - 256^w from there on.
IsSignedValue(msg, w) ==
    LET u == [i \in 0..(w - 1) |-> ByteAt(i)]
    IN  IF ByteAt(w - 1) < 128 THEN msg = [neg |-> FALSE, mag |-> u]
        ELSE msg.neg /\ AddsToPower(msg.mag, u, w, 0, 0)

\* The destination holds what the claim says the primitive op decodes from
\* the bytes at the cursor.
ValueDecoded(op, msg) ==
    CASE op = "DecodeUint8" -> msg = ByteAt(0)
      [] op = "DecodeInt8" ->
            msg = IF ByteAt(0) < 128 THEN ByteAt(0) ELSE ByteAt(0) - 256
      [] op = "DecodeBool" -> msg = (ByteAt(0) # 0)
      [] op = "DecodeUint16" -> msg = ByteAt(0) + 256 * ByteAt(1)
      [] op = "DecodeUint16BigEndian" -> msg = 256 * ByteAt(0) + ByteAt(1)
      [] op = "DecodeInt16" ->
            msg = IF ByteAt(1) < 128 THEN ByteAt(0) + 256 * ByteAt(1)
                  ELSE ByteAt(0) + 256 * ByteAt(1) - 65536
      [] op \in {"DecodeUint32", "DecodeUint64"} ->
            msg = [i \in 0..(Width(op) - 1) |-> ByteAt(i)]
      [] op = "DecodeUint32BigEndian" ->
            msg = [i \in 0..3 |-> ByteAt(3 - i)]
      [] OTHER -> IsSignedValue(msg, Width(op))

\* The value of the big-endian variant is the little-endian variant's value
\* of the same bytes with its bytes in reverse order.
ByteReversed(op, msg) ==
    CASE op = "DecodeUint16BigEndian" ->
            LET le == DecodeUint16(call.before, 0).msg
            IN  msg = 256 * (le % 256) + le \div 256
      [] op = "DecodeUint32BigEndian" ->
            LET le == DecodeUint32(call.before, OldNum(4)).msg
            IN  msg = [i \in 0..3 |-> le[3 - i]]
      [] OTHER -> TRUE

\* The last call succeeded, decoded the value and moved the cursor by w.
Succeeded(op, w) ==
    /\ call.err = NoError
    /\ ValueDecoded(op, call.msg)
    /\ ByteReversed(op, call.msg)
    /\ decoder.cursor = call.before.cursor + w
    /\ decoder.buffer = call.before.buffer

\* C13: A fixed-width decode primitive of width w called with
\* cursor + w <= buffer length succeeds: the destination receives the value
\* of the w bytes buffer[cursor .. cursor+w) read little-endian (big-endian
\* for DecodeUint16BigEndian and DecodeUint32BigEndian, non-zero-is-true for
\* DecodeBool), the cursor advances by exactly w and the buffer is
\* unchanged; the big-endian variant returns the byte-reversed value of the
\* little-endian variant.
C13_FixedWidthSuccess ==
    ( /\ call.op \in Primitives
      /\ call.before.cursor + Width(call.op) <= Len(call.before.buffer) )
        => Succeeded(call.op, Width(call.op))

\* C13, where the cursor is a position of the buffer when the primitive is
\* called: the statement of C13.
C13_FixedWidthSuccessAtPositions ==
    ( /\ call.op \in Primitives
      /\ AtPosition
      /\ call.before.cursor + Width(call.op) <= Len(call.before.buffer) )
        => Succeeded(call.op, Width(call.op))

\* A big-endian decode that succeeded past the start of the buffer, on
\* bytes that differ.
C13_Witness ==
    /\ call.op = "DecodeUint32BigEndian"
    /\ call.err = NoError
    /\ call.before.cursor > 0
    /\ call.msg[0] # call.msg[3]

\* The composite decoders, the record type of each and the layout each
\* reads: field, offset, width, and how the field is held ("u8": a number of
\* one byte).
Composites ==
    {"DecodeContext", "DecodeSlimCred", "DecodeChunkMeta",
     "DecodeVfsFileMeta", "DecodeKernelModuleMeta", "DecodeBpfObjectMeta",
     "DecodeMprotectWriteMeta"}

RecordSize(op) ==
    CASE op = "DecodeContext" -> 144
      [] op = "DecodeSlimCred" -> 80
      [] op = "DecodeChunkMeta" -> 49
      [] op = "DecodeVfsFileMeta" -> 20
      [] op = "DecodeKernelModuleMeta" -> 20
      [] op = "DecodeBpfObjectMeta" -> 28
      [] OTHER -> 12

RecordLayout(op) ==
    CASE op = "DecodeContext" -> ContextLayout
      [] op = "DecodeSlimCred" ->
            << <<"Uid", 0, 4, "u">>, <<"Gid", 4, 4, "u">>,
               <<"Suid", 8, 4, "u">>, <<"Sgid", 12, 4, "u">>,
               <<"Euid", 16, 4, "u">>, <<"Egid", 20, 4, "u">>,
               <<"Fsuid", 24, 4, "u">>, <<"Fsgid", 28, 4, "u">>,
               <<"UserNamespace", 32, 4, "u">>,
               <<"SecureBits", 36, 4, "u">>,
               <<"CapInheritable", 40, 8, "u">>,
               <<"CapPermitted", 48, 8, "u">>,
               <<"CapEffective", 56, 8, "u">>,
               <<"CapBounding", 64, 8, "u">>,
               <<"CapAmbient", 72, 8, "u">> >>
      [] op = "DecodeChunkMeta" ->
            << <<"BinType", 0, 1, "u8">>, <<"CgroupID", 1, 8, "u">>,
               <<"Metadata", 9, 28, "b">>, <<"Size", 37, 4, "i">>,
               <<"Off", 41, 8, "u">> >>
      [] op = "DecodeVfsFileMeta" ->
            << <<"DevID", 0, 4, "u">>, <<"Inode", 4, 8, "u">>,
               <<"Mode", 12, 4, "u">>, <<"Pid", 16, 4, "u">> >>
      [] op = "DecodeKernelModuleMeta" ->
            << <<"DevID", 0, 4, "u">>, <<"Inode", 4, 8, "u">>,
               <<"Pid", 12, 4, "u">>, <<"Size", 16, 4, "u">> >>
      [] op = "DecodeBpfObjectMeta" ->
            << <<"Name", 0, 16, "b">>, <<"Rand", 16, 4, "u">>,
               <<"Pid", 20, 4, "u">>, <<"Size", 24, 4, "u">> >>
      [] OTHER -> << <<"Ts", 0, 8, "u">>, <<"Pid", 8, 4, "u">> >>

\* value is what the w bytes from the offset off after the cursor hold.
FieldDecoded(value, off, w, kind) ==
    CASE kind = "u" -> value = [i \in 0..(w - 1) |-> ByteAt(off + i)]
      [] kind = "b" -> value = [i \in 1..w |-> ByteAt(off + i - 1)]
      [] kind = "u8" -> value = ByteAt(off)
      [] kind = "u16" -> value = ByteAt(off) + 256 * ByteAt(off + 1)
      [] OTHER ->
            LET u == [i \in 0..(w - 1) |-> ByteAt(off + i)]
            IN  IF ByteAt(off + w - 1) < 128
                THEN value = [neg |-> FALSE, mag |-> u]
                ELSE value.neg /\ AddsToPower(value.mag, u, w, 0, 0)

\* Every field of the record the last call decoded into holds the bytes of
\* its place in the layout, and the record has no other field.
Filled(op) ==
    LET layout == RecordLayout(op)
    IN  /\ DOMAIN call.msg = {layout[k][1] : k \in DOMAIN layout}
        /\ \A k \in DOMAIN layout :
               FieldDecoded(call.msg[layout[k][1]], layout[k][2],
                            layout[k][3], layout[k][4])

\* What C14 says of the last call of a composite decoder.
CompositeOutcome(op) ==
    IF Remaining < RecordSize(op)
    THEN /\ call.err.kind \in {"ErrBufferTooShort", "Errorf"}
         /\ decoder = call.before
         /\ call.msg = call.msgBefore
    ELSE /\ call.err = NoError
         /\ Filled(op)
         /\ decoder.cursor = call.before.cursor + RecordSize(op)
         /\ decoder.buffer = call.before.buffer

\* C14: Every composite decoder checks the bytes that remain against the
\* fixed total size of its record (144 for the event context, 80, 49, 20,
\* 20, 28 and 12 for the others): with fewer bytes left it returns an error,
\* the cursor unchanged and no field of the target record written;
\* otherwise it fills every field of the record from its place in the
\* layout and advances the cursor by exactly that size.
C14_CompositeDecoders ==
    call.op \in Composites => CompositeOutcome(call.op)

\* C14, where the cursor is a position of the buffer when the decoder is
\* called: the statement of C14.
C14_CompositeDecodersAtPositions ==
    (call.op \in Composites /\ AtPosition) => CompositeOutcome(call.op)

\* A composite decoder failed one byte short of its record, past the start
\* of the buffer.
C14_Witness ==
    /\ call.op = "DecodeChunkMeta"
    /\ AtPosition
    /\ Remaining = 48
    /\ call.err.kind = "ErrBufferTooShort"
    /\ call.msg = OldChunkMeta

\* C15: Round trip of the event-context header. For a header of known field
\* values encoded little-endian at the documented offsets (the layout, in
\* which each of the 144 bytes belongs to exactly one field), DecodeContext
\* called with the cursor at the header succeeds, reproduces every field
\* exactly and advances the cursor by 144; and each field of any header it
\* decodes is read from the bytes of that field's place alone.
C15_ContextRoundTrip ==
    /\ \A j \in 0..143 :
           Cardinality({k \in DOMAIN ContextLayout :
                           /\ ContextLayout[k][2] <= j
                           /\ j < ContextLayout[k][2] + ContextLayout[k][3]})
               = 1
    /\ \A c \in KnownContexts :
           ( /\ call.op = "DecodeContext"
             /\ call.before.cursor >= 0
             /\ Remaining >= 144
             /\ SubSeq(call.before.buffer, call.before.cursor + 1,
                       call.before.cursor + 144) = EncodeContext(c) )
               => /\ call.err = NoError
                  /\ call.msg = c
                  /\ decoder.cursor = call.before.cursor + 144
    /\ (call.op = "DecodeContext" /\ call.err = NoError)
           => Filled("DecodeContext")

\* The header with the negative return value was decoded, after one other
\* byte.
C15_Witness ==
    /\ call.op = "DecodeContext"
    /\ call.err = NoError
    /\ call.before.cursor = 1
    /\ call.msg = KnownContext(1)
    /\ call.msg.Syscall = SignedOf(59, 4)

\* The sum cursor + n of the last call of MoveCursor is beyond the range of
\* int.
SumOverflows ==
    call.before.cursor > 0 /\ call.arg > MaxInt - call.before.cursor

\* What C16 says of the last call of MoveCursor, with n = call.arg; the
\* comparison of cursor + n with the length is written so that it is the
\* one of the integers.
MoveCursorOutcome ==
    /\ IF call.arg <= Len(call.before.buffer) - call.before.cursor
       THEN /\ decoder.cursor = call.before.cursor + call.arg
            /\ call.ret = call.before.cursor + call.arg
       ELSE /\ decoder.cursor = call.before.cursor
            /\ call.ret = call.before.cursor
    /\ decoder.buffer = call.before.buffer
    /\ decoder.typeDecoder = call.before.typeDecoder
    /\ call.err = NoError

\* C16: MoveCursor(n) moves the cursor by n and returns the new cursor when
\* cursor + n is at most the length of the buffer, the move to exactly the
\* end included; when cursor + n is beyond the end it leaves the cursor
\* where it was and returns it. It never touches the buffer and has no
\* error to signal.
C16_MoveCursor ==
    call.op = "MoveCursor" => MoveCursorOutcome

\* C16 for the calls whose sum cursor + n is within the range of int.
C16_MoveCursorWithoutOverflow ==
    (call.op = "MoveCursor" /\ ~SumOverflows) => MoveCursorOutcome

\* MoveCursor moved the cursor forward to exactly the end of the buffer.
C16_Witness ==
    /\ call.op = "MoveCursor"
    /\ call.arg > 0
    /\ call.before.cursor + call.arg = Len(call.before.buffer)
    /\ decoder.cursor = Len(decoder.buffer)
    /\ call.ret = Len(decoder.buffer)

\* C17: The cursor only moves forward. No decode method, successful or
\* failed, and no MoveCursor with any integer argument makes BytesRead()
\* smaller than it was; only SetBuffer moves the cursor back, to zero.
C17_CursorOnlyForward ==
    [][ /\ call'.op # "SetBuffer"
            => BytesRead(decoder') >= BytesRead(decoder)
        /\ call'.op = "SetBuffer" => BytesRead(decoder') = 0 ]_vars

\* C17 without the calls of MoveCursor with a negative argument or with a
\* sum beyond the range of int: no other call makes BytesRead() smaller,
\* except SetBuffer, which makes it zero.
C17_CursorOnlyForwardButNegativeMoves ==
    [][ /\ (call'.op # "SetBuffer"
              /\ ~(call'.op = "MoveCursor"
                      /\ (\/ call'.arg < 0
                          \/ /\ decoder.cursor > 0
                             /\ call'.arg > MaxInt - decoder.cursor)))
            => BytesRead(decoder') >= BytesRead(decoder)
        /\ call'.op = "SetBuffer" => BytesRead(decoder') = 0 ]_vars

\* MoveCursor with a negative argument moved the cursor back.
C17_Witness ==
    /\ call.op = "MoveCursor"
    /\ call.arg < 0
    /\ call.before.cursor > 0
    /\ BytesRead(decoder) < BytesRead(call.before)

\* C18: SetBuffer(b) replaces the buffer and puts the cursor at zero: right
\* after it BytesRead() is 0 and BuffLen() is the length of b, and the
\* type-decoder table is the one the decoder had. Whatever was decoded
\* before, with or without success, the decoder is then the one
\* New(b, typeDecoder) constructs, and every later call leaves it in the
\* state, and returns the value and error, that the same call gives on a
\* decoder constructed so and taken through the same calls.
C18_SetBufferResets ==
    /\ call.op = "SetBuffer" =>
           /\ BytesRead(decoder) = 0
           /\ BuffLen(decoder) = Len(call.arg)
           /\ decoder.buffer = call.arg
           /\ decoder.typeDecoder = call.before.typeDecoder
           /\ decoder = New(call.arg, call.before.typeDecoder)
    /\ decoder = fresh
    /\ call.msg = freshCall.msg
    /\ call.err = freshCall.err
    /\ call.ret = freshCall.ret

\* A decode succeeded on a buffer that a decoder with the nil table only
\* gets from SetBuffer.
C18_Witness ==
    /\ call.op = "DecodeUint16"
    /\ call.err = NoError
    /\ decoder.typeDecoder = "nil"
    /\ decoder.buffer = PatternBuffer(3, 200)
    /\ decoder.cursor = 2

\* The count DecodeUint64Array reads at the cursor.
ArrayCount == ByteAt(0) + 256 * ByteAt(1)

\* C19: DecodeUint64Array reads a 16-bit little-endian count c, then c
\* 64-bit little-endian elements, and appends them in order after what the
\* destination held; on success the cursor has advanced by 2 + 8c. A count
\* of 0 succeeds, appends nothing and advances the cursor by 2.
C19_Uint64Array ==
    /\ (call.op = "DecodeUint64Array" /\ call.err = NoError) =>
           /\ call.msg = call.msgBefore
                  \o [k \in 1..ArrayCount |->
                         [i \in 0..7 |-> ByteAt(2 + 8 * (k - 1) + i)]]
           /\ decoder.cursor = call.before.cursor + 2 + 8 * ArrayCount
           /\ decoder.buffer = call.before.buffer
    /\ ( /\ call.op = "DecodeUint64Array"
         /\ call.before.cursor >= 0
         /\ Remaining >= 2
         /\ ArrayCount = 0 ) =>
           /\ call.err = NoError
           /\ call.msg = call.msgBefore
           /\ decoder.cursor = call.before.cursor + 2

\* Two elements were appended after the one the destination held.
C19_Witness ==
    /\ call.op = "DecodeUint64Array"
    /\ call.err = NoError
    /\ Len(call.msgBefore) = 1
    /\ Len(call.msg) = 3
    /\ call.msg[2] # call.msg[3]

\* The count was 0 and nothing was appended to a destination holding one
\* element.
C19_WitnessZero ==
    /\ call.op = "DecodeUint64Array"
    /\ call.err = NoError
    /\ call.msg = <<OldNum(8)>>
    /\ decoder.cursor = call.before.cursor + 2

\* What C20 says of the last call of DecodeBytes with size call.arg.
DecodeBytesOutcome ==
    IF Remaining >= call.arg
    THEN /\ call.err = NoError
         /\ Len(call.msg) >= call.arg
         /\ \A i \in 1..call.arg : call.msg[i] = ByteAt(i - 1)
         /\ decoder.cursor = call.before.cursor + call.arg
         /\ decoder.buffer = call.before.buffer
    ELSE FailedShort(call.arg)

\* What C20 says of the last call of ReadBytesLen with length call.arg.
ReadBytesLenOutcome ==
    IF Remaining >= call.arg
    THEN /\ call.err = NoError
         /\ ~call.msg.nil
         /\ Len(call.msg.elems) = call.arg
         /\ \A i \in 1..call.arg : call.msg.elems[i] = ByteAt(i - 1)
         /\ decoder.cursor = call.before.cursor + call.arg
         /\ decoder.buffer = call.before.buffer
    ELSE /\ call.msg = Nil
         /\ call.err.kind = "Errorf"
         /\ decoder = call.before

\* C20: DecodeBytes copies the size bytes at the cursor into msg and
\* advances the cursor by size when at least size bytes remain, and
\* otherwise returns a BufferTooShort error with the cursor unchanged and
\* msg not written. ReadBytesLen(n) returns a fresh slice of the n bytes at
\* the cursor, advancing by n, or nil and an error when fewer than n bytes
\* remain.
C20_DecodeBytes ==
    /\ call.op = "DecodeBytes" => DecodeBytesOutcome
    /\ call.op = "ReadBytesLen" => ReadBytesLenOutcome

\* C20 for a size that is not negative, a destination of at least size
\* bytes and a cursor that is a position of the buffer.
C20_DecodeBytesInRange ==
    /\ ( /\ call.op = "DecodeBytes"
         /\ AtPosition
         /\ call.arg >= 0
         /\ Len(call.msgBefore) >= call.arg ) => DecodeBytesOutcome
    /\ (call.op = "ReadBytesLen" /\ AtPosition /\ call.arg >= 0)
           => ReadBytesLenOutcome

\* DecodeBytes advanced the cursor by size after copying fewer bytes than
\* size into a shorter destination.
C20_Witness ==
    /\ call.op = "DecodeBytes"
    /\ AtPosition
    /\ call.arg = 2
    /\ Len(call.msgBefore) = 1
    /\ call.err = NoError
    /\ decoder.cursor = call.before.cursor + 2

\* C27: Cursor bounds. In every state reached by New, SetBuffer, MoveCursor
\* with any integer argument, negative ones included, and the decode
\* operations, 0 <= cursor <= length of the buffer: BytesRead() is never
\* more than BuffLen() and never negative.
C27_CursorBounds ==
    /\ 0 <= decoder.cursor
    /\ decoder.cursor <= Len(decoder.buffer)
    /\ 0 <= BytesRead(decoder)
    /\ BytesRead(decoder) <= BuffLen(decoder)

\* C27 as what each call keeps, other than MoveCursor with a negative
\* argument or with a sum beyond the range of int: a cursor that is a
\* position of the buffer before the call is one after it.
C27_CursorBoundsKept ==
    ( /\ AtPosition
      /\ ~(call.op = "MoveCursor" /\ (call.arg < 0 \/ SumOverflows)) )
        => /\ 0 <= decoder.cursor
           /\ decoder.cursor <= Len(decoder.buffer)

\* MoveCursor with a negative argument has put the cursor before the
\* buffer.
C27_Witness ==
    /\ call.op = "MoveCursor"
    /\ call.arg < 0
    /\ call.before.cursor = 0
    /\ decoder.cursor < 0

\* The index of the first element of the announced ones that the buffer
\* does not hold whole: the number of whole elements after the count.
WholeElements == (Remaining - 2) \div 8

\* C30: A failing DecodeUint64Array is not atomic. When the 16-bit count c
\* decodes and the buffer ends before element i < c, the call returns an
\* error that names i, the cursor is 2 + 8i past where it was and the i
\* elements decoded are appended to the destination; when the count cannot
\* be decoded the cursor and the destination are as before the call.
C30_Uint64ArrayNotAtomic ==
    call.op = "DecodeUint64Array" =>
        IF call.before.cursor >= 0 /\ Remaining >= 2
        THEN WholeElements < ArrayCount =>
                 /\ call.err.kind = "Errorf"
                 /\ call.err.args[1] = WholeElements
                 /\ decoder.cursor = call.before.cursor + 2 + 8 * WholeElements
                 /\ call.msg = call.msgBefore
                        \o [k \in 1..WholeElements |->
                               [i \in 0..7 |-> ByteAt(2 + 8 * (k - 1) + i)]]
        ELSE /\ call.err # NoError
             /\ decoder = call.before
             /\ call.msg = call.msgBefore

\* The second of two announced elements was cut short: the first stays
\* appended after the element the destination held, the cursor 10 further.
C30_Witness ==
    /\ call.op = "DecodeUint64Array"
    /\ call.err.kind = "Errorf"
    /\ call.before.cursor >= 0
    /\ Remaining >= 2
    /\ ArrayCount = 2
    /\ Len(call.msgBefore) = 1
    /\ Len(call.msg) = 2
    /\ decoder.cursor = call.before.cursor + 10

\* ------------------------------------------- decoder: sequences of decodes
\*
\* A decoder made by New and then used by decode operations only, as the
\* callers that parse one event do: no MoveCursor, no SetBuffer. With the
\* decoder the state keeps the sum of the widths of the operations that
\* succeeded, each width taken from the table below and not from the cursor.

\* The decode operations with an argument, and those without.
SizedOps == {"DecodeBytes", "ReadBytesLen", "DecodeInt32Array"}
DecodeOps == Primitives \cup Composites \cup SizedOps \cup {"DecodeUint64Array"}

\* The decode operation op on decoder d with the destination msg.
Decode(op, d, arg, msg) ==
    CASE op = "DecodeUint8" -> DecodeUint8(d, msg)
      [] op = "DecodeInt8" -> DecodeInt8(d, msg)
      [] op = "DecodeUint16" -> DecodeUint16(d, msg)
      [] op = "DecodeUint16BigEndian" -> DecodeUint16BigEndian(d, msg)
      [] op = "DecodeInt16" -> DecodeInt16(d, msg)
      [] op = "DecodeUint32" -> DecodeUint32(d, msg)
      [] op = "DecodeUint32BigEndian" -> DecodeUint32BigEndian(d, msg)
      [] op = "DecodeInt32" -> DecodeInt32(d, msg)
      [] op = "DecodeUint64" -> DecodeUint64(d, msg)
      [] op = "DecodeInt64" -> DecodeInt64(d, msg)
      [] op = "DecodeBool" -> DecodeBool(d, msg)
      [] op = "DecodeContext" -> DecodeContext(d, msg)
      [] op = "DecodeSlimCred" -> DecodeSlimCred(d, msg)
      [] op = "DecodeChunkMeta" -> DecodeChunkMeta(d, msg)
      [] op = "DecodeVfsFileMeta" -> DecodeVfsFileMeta(d, msg)
      [] op = "DecodeKernelModuleMeta" -> DecodeKernelModuleMeta(d, msg)
      [] op = "DecodeBpfObjectMeta" -> DecodeBpfObjectMeta(d, msg)
      [] op = "DecodeMprotectWriteMeta" -> DecodeMprotectWriteMeta(d, msg)
      [] op = "DecodeBytes" -> DecodeBytes(d, msg, arg)
      [] op = "ReadBytesLen" -> ReadBytesLen(d, arg)
      [] op = "DecodeInt32Array" -> DecodeInt32Array(d, msg, arg)
      [] OTHER -> DecodeUint64Array(d, msg)

\* The destination a call of op is given.
Destination(op, arg) ==
    CASE op \in {"DecodeUint8", "DecodeUint16", "DecodeUint16BigEndian",
                 "DecodeInt16"} -> 170
      [] op = "DecodeInt8" -> -86
      [] op = "DecodeBool" -> TRUE
      [] op \in {"DecodeUint32", "DecodeUint32BigEndian"} -> OldNum(4)
      [] op = "DecodeInt32" -> OldSigned(4)
      [] op = "DecodeUint64" -> OldNum(8)
      [] op = "DecodeInt64" -> OldSigned(8)
      [] op = "DecodeContext" -> OldContext
      [] op = "DecodeSlimCred" -> OldSlimCred
      [] op = "DecodeChunkMeta" -> OldChunkMeta
      [] op = "DecodeVfsFileMeta" -> OldVfsFileMeta
      [] op = "DecodeKernelModuleMeta" -> OldKernelModuleMeta
      [] op = "DecodeBpfObjectMeta" -> OldBpfObjectMeta
      [] op = "DecodeMprotectWriteMeta" -> OldMprotectWriteMeta
      [] op = "DecodeBytes" -> OldBytes(arg)
      [] op = "ReadBytesLen" -> Nil
      [] op = "DecodeInt32Array" -> [i \in 1..arg |-> OldSigned(4)]
      [] OTHER -> <<OldNum(8)>>

\* The element count a uint64 array announces at the offset off of buffer.
CountAt(buffer, off) == buffer[off + 1] + 256 * buffer[off + 2]

\* The width of an operation: the number of bytes it reads when it succeeds
\* on a decoder with the cursor at off.
OpWidth(op, arg, buffer, off) ==
    CASE op \in Primitives -> Width(op)
      [] op \in Composites -> RecordSize(op)
      [] op \in {"DecodeBytes", "ReadBytesLen"} -> arg
      [] op = "DecodeInt32Array" -> 4 * arg
      [] OTHER -> 2 + 8 * CountAt(buffer, off)

\* The state after the call of op on the decoder of the sequence s, r being
\* what the call returned. cut: some DecodeUint64Array of the sequence has
\* failed after it had decoded its count.
Step(s, op, arg, r) ==
    [op |-> op, arg |-> arg, decoder |-> r.decoder, before |-> s.decoder,
     msg |-> r.msg, err |-> r.err,
     consumedBefore |-> s.consumed,
     consumed |-> IF r.err = NoError
                  THEN s.consumed
                       + OpWidth(op, arg, s.decoder.buffer, s.decoder.cursor)
                  ELSE s.consumed,
     cut |-> \/ s.cut
             \/ /\ op = "DecodeUint64Array"
                /\ r.err # NoError
                /\ Len(s.decoder.buffer) - s.decoder.cursor >= 2]

\* New(rawBuffer, typeDecoder): the cursor is 0 and nothing is consumed.
SequenceInit ==
    /\ DeriveIdle
    /\ DecoderIdle
    /\ \E b \in Buffers :
           sequence = [op |-> "New", arg |-> 0,
                       decoder |-> New(b, "NewTypeDecoder"),
                       before |-> New(b, "NewTypeDecoder"),
                       msg |-> 0, err |-> NoError,
                       consumedBefore |-> 0, consumed |-> 0, cut |-> FALSE]
    /\ assembly = NotCalled
    /\ built = NotCalled
    /\ conc = NotCalled
    /\ steps = NotCalled
    /\ parsed = NotCalled
    /\ runner = NotCalled

\* The next call of the sequence is op with arg.
SequenceCall(op, arg) ==
    /\ sequence.err # Panic
    /\ sequence' = Step(sequence, op, arg,
                        Decode(op, sequence.decoder, arg,
                               Destination(op, arg)))
    /\ UNCHANGED <<deriveVars, decoderVars, assembly, built, conc,
                   laterVars>>

\* The sizes the sized operations of a sequence are called with.
SequenceSizes(d) == (0..MaxMove) \cup {Len(d.buffer) - d.cursor + 1}

DecodePrimitiveNext == \E op \in Primitives : SequenceCall(op, 0)

DecodeCompositeNext == \E op \in Composites : SequenceCall(op, 0)

DecodeSizedNext ==
    \E op \in SizedOps, size \in SequenceSizes(sequence.decoder) :
        SequenceCall(op, size)

DecodeUint64ArrayNext == SequenceCall("DecodeUint64Array", 0)

SequenceNext ==
    \/ DecodePrimitiveNext
    \/ DecodeCompositeNext
    \/ DecodeSizedNext
    \/ DecodeUint64ArrayNext

SpecSequence == SequenceInit /\ [][SequenceNext]_vars

\* The last call of the sequence succeeded, or it failed.
SeqCalled == sequence.op \in DecodeOps
SeqSucceeded == SeqCalled /\ sequence.err = NoError
SeqFailed == SeqCalled /\ sequence.err # NoError

\* What the last call decoded are the bytes of the buffer from the offset
\* off on: spelled out for the little-endian unsigned numbers and for the
\* byte arrays.
ReadFrom(off) ==
    LET b == sequence.before.buffer
        m == sequence.msg
    IN  CASE sequence.op = "DecodeUint8" -> m = b[off + 1]
          [] sequence.op = "DecodeUint16" -> m = b[off + 1] + 256 * b[off + 2]
          [] sequence.op \in {"DecodeUint32", "DecodeUint64"} ->
                 \A i \in DOMAIN m : m[i] = b[off + i + 1]
          [] sequence.op = "DecodeBytes" ->
                 \A i \in DOMAIN m : m[i] = b[off + i]
          [] OTHER -> TRUE

\* The ranges are consecutive: the cursor is the sum of the widths of the
\* operations that succeeded, and the last of them read from the sum of the
\* widths of the earlier ones on.
ConsecutiveRanges ==
    /\ BytesRead(sequence.decoder) = sequence.consumed
    /\ SeqSucceeded =>
           /\ sequence.before.cursor = sequence.consumedBefore
           /\ sequence.consumed <= Len(sequence.decoder.buffer)
           /\ ReadFrom(sequence.consumedBefore)

\* A failed fixed-width or composite decode leaves the decoder as it was, so
\* that every later decode reads what it would have read without it.
FailureWithoutEffect ==
    (SeqFailed /\ sequence.op \in Primitives \cup Composites) =>
        /\ sequence.decoder = sequence.before
        /\ sequence.consumed = sequence.consumedBefore

\* C28: Sequential decodes consume consecutive, non-overlapping byte ranges.
\* After any sequence of decode operations from the cursor 0, BytesRead() is
\* the sum of the widths of the operations that succeeded, the k-th of them
\* read from the sum of the widths of the earlier ones on, and a failed
\* fixed-width or composite decode has no effect on the later decodes.
C28_ConsecutiveRanges ==
    sequence.op # "none" => (ConsecutiveRanges /\ FailureWithoutEffect)

\* C28 as it holds: the same of every sequence in which no DecodeUint64Array
\* has failed after it had decoded its element count. Such a failure leaves
\* the cursor behind the count and the elements it could read, which are
\* the width of no operation that succeeded.
C28_ConsecutiveRangesUnlessArrayCut ==
    sequence.op # "none" =>
        /\ ~sequence.cut => ConsecutiveRanges
        /\ FailureWithoutEffect

\* A successful decode of one byte has read the byte at 6, after decodes
\* whose widths add up to 6.
C28_Witness ==
    /\ sequence.op = "DecodeUint8"
    /\ sequence.err = NoError
    /\ sequence.consumedBefore = 6
    /\ sequence.consumed = 7
    /\ sequence.decoder.cursor = 7
    /\ ~sequence.cut

\* A failed fixed-width decode in a sequence: at the cursor 3 of 10 bytes.
C28_WitnessFailed ==
    /\ sequence.op = "DecodeUint64"
    /\ sequence.err # NoError
    /\ sequence.consumed = 3
    /\ sequence.decoder.cursor = 3
    /\ Len(sequence.decoder.buffer) = 10

\* --------------------------------------------- derive: the built functions
\*
\* The functions deriveMultipleEvents and deriveSingleEvent return, called
\* on their own with an argument function of any result: a list of tuples
\* (or nil) and the errors it reports.

MaxTuples == 3

\* The tuples an argument function returns: of no, one, two and three
\* values, where the schemas have one field or two.
Tuples == { <<>>, <<7>>, <<1, 2>>, <<3, 4>>, <<1, 2, 3>> }

RECURSIVE SeqsUpTo(_, _)
\* The sequences over S of at most n elements.
SeqsUpTo(S, n) ==
    IF n = 0 THEN { <<>> }
    ELSE LET shorter == SeqsUpTo(S, n - 1)
         IN  shorter \cup {Append(q, x) : q \in shorter, x \in S}

TupleLists == {Nil} \cup {Slice(q) : q \in SeqsUpTo(Tuples, MaxTuples)}

\* The errors an argument function reports: none, one, two.
ReportedErrors ==
    { <<>>, <<RuleError("first")>>,
      <<RuleError("first"), RuleError("second")>> }

\* The base events the functions are called with: with the nil list of
\* matched policies, and with MaxPolicies of them.
BaseStates ==
    {State(getTestEvent(testEventID, n).event,
           getTestEvent(testEventID, n).mem) : n \in {-1, MaxPolicies}}

BuildersInit ==
    /\ DeriveIdle
    /\ DecoderIdle
    /\ StandaloneIdle

\* deriveMultipleEvents(id, f)(event), f returning (multiArgs, errs). Each
\* run makes one call.
DeriveMultipleEventsCall ==
    /\ built = NotCalled
    /\ \E id \in TargetIDs, multiArgs \in TupleLists, errs \in ReportedErrors,
          st \in BaseStates :
        /\ built' = [op |-> "deriveMultipleEvents", id |-> id,
                     args |-> multiArgs, reported |-> errs, st |-> st,
                     r |-> deriveMultipleEvents(id, multiArgs, errs, st)]
        /\ UNCHANGED <<deriveVars, decoderVars, sequence, assembly, conc,
                   laterVars>>

\* deriveSingleEvent(id, f)(event), f returning (derivedArgs, err).
DeriveSingleEventCall ==
    /\ built = NotCalled
    /\ \E id \in TargetIDs,
          derivedArgs \in {Nil} \cup {Slice(tu) : tu \in Tuples},
          errs \in {e \in ReportedErrors : Len(e) <= 1}, st \in BaseStates :
        /\ built' = [op |-> "deriveSingleEvent", id |-> id,
                     args |-> derivedArgs, reported |-> errs, st |-> st,
                     r |-> deriveSingleEvent(
                               id, derivedArgs,
                               IF errs = <<>> THEN NoError ELSE errs[1], st)]
        /\ UNCHANGED <<deriveVars, decoderVars, sequence, assembly, conc,
                   laterVars>>

BuildersNext ==
    \/ DeriveMultipleEventsCall
    \/ DeriveSingleEventCall

SpecBuilders == BuildersInit /\ [][BuildersNext]_vars

\* The tuples of the last call whose arity is that of the schema, and the
\* others; each in the order of the list.
BuiltFields == getEventDefinition(built.id).Fields
BuiltGood ==
    SelectSeq(built.args.elems, LAMBDA tu : Len(tu) = Len(BuiltFields))
BuiltBad ==
    SelectSeq(built.args.elems, LAMBDA tu : Len(tu) # Len(BuiltFields))

\* The values of the arguments of a derived event of the last call.
BuiltValues(de) ==
    [j \in 1..Len(built.r.st.mem[de.Args]) |->
        built.r.st.mem[de.Args][j].Value]

\* C29: the function deriveMultipleEvents returns, called with a non-nil
\* list of T tuples and R reported errors, returns events and errors that are T + R
\* together: one derived event per tuple of the schema's arity, one
\* UnexpectedArgumentCount error per other tuple, and the R reported errors
\* in any case.
C29_MultipleEventsCounts ==
    built.op = "deriveMultipleEvents" =>
        LET T == Len(built.args.elems)
            R == Len(built.reported)
            events == built.r.events
            errs == built.r.errs
        IN  /\ Len(errs) >= R
            /\ SubSeq(errs, 1, R) = built.reported
            /\ ~built.args.nil =>
                   /\ Len(events) + Len(errs) = T + R
                   /\ Len(events) = Len(BuiltGood)
                   /\ \A i \in 1..Len(events) :
                          /\ events[i].EventID = built.id
                          /\ BuiltValues(events[i]) = BuiltGood[i]
                   /\ Len(errs) = R + Len(BuiltBad)
                   /\ \A i \in 1..Len(BuiltBad) :
                          errs[R + i] =
                              unexpectedArgCountError(
                                  getEventDefinition(built.id).Name,
                                  Len(BuiltFields), Len(BuiltBad[i]))

\* Three tuples, the second of the wrong arity, and one reported error: two
\* events and two errors.
C29_Witness ==
    /\ built.op = "deriveMultipleEvents"
    /\ built.id = deriveEventID
    /\ built.args = Slice(<< <<1, 2>>, <<1, 2, 3>>, <<3, 4>> >>)
    /\ Len(built.reported) = 1
    /\ Len(built.r.events) = 2
    /\ Len(built.r.errs) = 2

MaxItems == 3

\* The schemas: of three fields, one of which declares no zero value (the
\* nil interface); of two fields; and without fields.
Schemas ==
    { << DataField("fd", "u8", U8Value(0)),
         DataField("flags", "u16", U16Value(0)),
         DataField("addr", "u32", NilValue) >>,
      << DataField("len", "u16", U16Value(65535)),
         DataField("ret", "u8", U8Value(255)) >>,
      << >> }

\* The bytes of a value of the type decodeAs: those of n in little-endian
\* order, over the width of the type.
ValueBytes(decodeAs, n) ==
    CASE decodeAs = "u8" -> <<n % 256>>
      [] decodeAs = "u16" -> <<n % 256, n \div 256>>
      [] OTHER -> <<n % 256, n \div 256, 0, 0>>

\* The arguments a stream is made of: each field of the schema with the
\* value 258 (2 in one byte), the first field with the value 1 as well, and
\* an argument with the index that follows the last field.
Items(evtFields) ==
    { <<v[1] - 1>> \o ValueBytes(evtFields[v[1]].DecodeAs,
                                 IF evtFields[v[1]].DecodeAs = "u8"
                                 THEN v[2] % 256 ELSE v[2]) :
          v \in {w \in (1..Len(evtFields)) \X {1, 258} :
                     w[2] = 258 \/ w[1] = 1} }
        \cup { <<Len(evtFields), 1>> }

RECURSIVE Concat(_)
Concat(q) == IF q = <<>> THEN <<>> ELSE Head(q) \o Concat(Tail(q))

\* The streams: up to MaxItems arguments, whole or with the last byte cut
\* off.
Streams(evtFields) ==
    LET whole == {[items |-> Len(q), bytes |-> Concat(q)] :
                      q \in SeqsUpTo(Items(evtFields), MaxItems)}
    IN  whole \cup {[s EXCEPT !.bytes = SubSeq(@, 1, Len(@) - 1)] :
                        s \in {w \in whole : w.items > 0}}

ArgumentsInit ==
    /\ DeriveIdle
    /\ DecoderIdle
    /\ StandaloneIdle

\* DecodeArguments on a decoder that has read the skip bytes before the
\* arguments, with args of len(evtFields) empty slots and an argnum that is
\* the number of arguments of the stream, one less or one more. Each run
\* makes one call.
DecodeArgumentsCall ==
    /\ assembly = NotCalled
    /\ \E evtFields \in Schemas, skip \in {0, 2} :
       \E s \in Streams(evtFields), d \in {-1, 0, 1} :
           LET before == MoveCursor(New(PatternBuffer(skip, 200) \o s.bytes,
                                        "NewTypeDecoder"), skip).decoder
               args == [i \in 1..Len(evtFields) |-> EmptyArgument]
               argnum == s.items + d
           IN  assembly' =
                   [op |-> "DecodeArguments", before |-> before,
                    args |-> args, argnum |-> argnum,
                    evtFields |-> evtFields,
                    r |-> DecodeArguments(before, args, argnum, evtFields,
                                          "test_event", testEventID)]
    /\ UNCHANGED <<deriveVars, decoderVars, sequence, built, conc,
                   laterVars>>

ArgumentsNext == DecodeArgumentsCall

SpecArguments == ArgumentsInit /\ [][ArgumentsNext]_vars

\* ------------------------------------------ the claims: DecodeArguments

RECURSIVE Reads(_, _, _)
\* What n calls of readArgFromBuff in a row return, from the decoder d on.
Reads(d, evtFields, n) ==
    IF n <= 0 THEN <<>>
    ELSE LET r == readArgFromBuff(testEventID, d, evtFields)
         IN  <<r>> \o Reads(r.decoder, evtFields, n - 1)

Assembling == assembly.op = "DecodeArguments"

\* The reads of the last DecodeArguments call, the successful ones among
\* them that name the slot k, and the last of these.
AssemblyReads == Reads(assembly.before, assembly.evtFields, assembly.argnum)
ReadsFor(k) ==
    {j \in 1..Len(AssemblyReads) :
        AssemblyReads[j].err = NoError /\ AssemblyReads[j].idx = k - 1}
FailedReads == {j \in 1..Len(AssemblyReads) : AssemblyReads[j].err # NoError}
LastFor(k) == CHOOSE j \in ReadsFor(k) : \A h \in ReadsFor(k) : h <= j

\* The slot k holds the field's zero value and metadata.
ZeroFilled(k) ==
    assembly.r.args[k] = [ArgMeta |-> assembly.evtFields[k].ArgMeta,
                          Value |-> assembly.evtFields[k].Zero]

\* The slot k holds the argument the read j decoded, under the field's
\* metadata.
Placed(k, j) ==
    /\ assembly.r.args[k] = AssemblyReads[j].arg
    /\ assembly.r.args[k].ArgMeta = assembly.evtFields[k].ArgMeta
    /\ assembly.r.args[k].Value # NilValue

\* The stream supplies a strict subset of the fields: every read succeeds,
\* no two name the same field, and they are fewer than the fields.
StrictSubset ==
    /\ Assembling
    /\ FailedReads = {}
    /\ \A k \in 1..Len(assembly.evtFields) : Cardinality(ReadsFor(k)) <= 1
    /\ Len(AssemblyReads) < Len(assembly.evtFields)

\* The supplied fields hold what was decoded, the others the zero value and
\* the metadata of the schema, in the order of the schema.
Complete ==
    /\ assembly.r.err = NoError
    /\ Len(assembly.r.args) = Len(assembly.evtFields)
    /\ \A k \in 1..Len(assembly.evtFields) :
           IF ReadsFor(k) # {} THEN Placed(k, LastFor(k)) ELSE ZeroFilled(k)

C21_WitnessNilZero ==
    /\ StrictSubset
    /\ Len(assembly.evtFields) = 3
    /\ ReadsFor(3) = {}
    /\ assembly.r.args[3].Value = NilValue

\* C22: a read that fails is not fatal to DecodeArguments. It is logged and
\* skipped, the loop goes on to argnum reads in all, what is decoded before
\* and after it is placed at its position, the fields without a decoded
\* argument are zero-filled, and no error is returned; when every read
\* fails, all fields hold their zero values.
C22_FailedReadNotFatal ==
    (Assembling /\ FailedReads # {}) =>
        /\ assembly.r.err = NoError
        /\ assembly.r.decoder = AssemblyReads[Len(AssemblyReads)].decoder
        /\ SelectSeq(assembly.r.logs, LAMBDA l : l.level = "error")
               = [n \in 1..Cardinality(FailedReads) |->
                     LET j == CHOOSE j \in FailedReads :
                                  Cardinality({h \in FailedReads : h < j})
                                      = n - 1
                     IN  ErrorLog(j - 1, "test_event", AssemblyReads[j].err)]
        /\ Len(assembly.r.args) = Len(assembly.evtFields)
        /\ \A k \in 1..Len(assembly.evtFields) :
               IF ReadsFor(k) # {}
               THEN assembly.r.args[k] = AssemblyReads[LastFor(k)].arg
               ELSE ZeroFilled(k)
        /\ Cardinality(FailedReads) = Len(AssemblyReads) =>
               \A k \in 1..Len(assembly.evtFields) : ZeroFilled(k)

\* Of three reads the second fails; the first and the third are placed.
C22_Witness ==
    /\ Assembling
    /\ Len(AssemblyReads) = 3
    /\ FailedReads = {2}
    /\ Len(assembly.r.logs) = 1
    /\ AssemblyReads[1].idx # AssemblyReads[3].idx
    /\ assembly.r.args[AssemblyReads[1].idx + 1] = AssemblyReads[1].arg
    /\ assembly.r.args[AssemblyReads[3].idx + 1] = AssemblyReads[3].arg

\* Both reads fail and the two fields hold their zero values.
C22_WitnessAllFail ==
    /\ Assembling
    /\ Len(AssemblyReads) = 2
    /\ FailedReads = {1, 2}
    /\ Len(assembly.evtFields) = 2
    /\ assembly.r.args[1].Value = U16Value(65535)

\* The slots that two or more successful reads name.
Duplicated ==
    {k \in 1..Len(assembly.evtFields) : Cardinality(ReadsFor(k)) >= 2}

\* C23: Duplicate arguments. When two or more arguments of the stream name
\* the same field, the later overwrites the earlier: the slot holds the
\* value of the last one decoded, every other slot is as without the
\* duplicates, and there is one argument per field of the schema.
C23_DuplicateOverwrites ==
    (Assembling /\ Duplicated # {}) =>
        /\ Len(assembly.r.args) = Len(assembly.evtFields)
        /\ \A k \in Duplicated :
               /\ assembly.r.args[k].Value = AssemblyReads[LastFor(k)].arg.Value
               /\ assembly.r.args[k].ArgMeta = assembly.evtFields[k].ArgMeta
        /\ \A k \in (1..Len(assembly.evtFields)) \ Duplicated :
               \/ ReadsFor(k) = {} /\ ZeroFilled(k)
               \/ /\ ReadsFor(k) # {}
                  /\ assembly.r.args[k] = AssemblyReads[LastFor(k)].arg
        /\ Len(SelectSeq(assembly.r.logs, LAMBDA l : l.level = "warn"))
               = Sum([k \in Duplicated |-> Cardinality(ReadsFor(k)) - 1],
                     Duplicated)

\* The first field is supplied twice, with 1 and then with 2, and holds 2;
\* the second is supplied once.
C23_Witness ==
    /\ Assembling
    /\ Len(assembly.evtFields) = 3
    /\ Duplicated = {1}
    /\ \E j \in ReadsFor(1) : AssemblyReads[j].arg.Value = U8Value(1)
    /\ AssemblyReads[LastFor(1)].arg.Value = U8Value(2)
    /\ assembly.r.args[1].Value = U8Value(2)
    /\ Cardinality(ReadsFor(2)) = 1

\* ------------------------------------------ derive: concurrent DeriveEvent
\*
\* Two goroutines call DeriveEvent on one Table with a pointer to one base
\* event, while a third may call Register on the same table. Nothing orders
\* the goroutines: every interleaving of their steps is a run. The flags of
\* the predicates stay as they are. With each goroutine the state keeps the
\* objects its call has read and those it has written.

Goroutines == {"g1", "g2"}

\* The Register calls that made the table before the goroutines start.
Setups ==
    { << <<testEventID, failEventID, "pA", "alwaysDeriveError">>,
         <<testEventID, deriveEventID, "pB", "goodBadGood">>,
         <<testEventID, noDerivationEventID, "pA", "multiTwo">> >>,
      << <<testEventID, deriveEventID, "pA", "multiMore">>,
         <<testEventID, noDerivationEventID, "pB", "failTwo">> >> }

\* The Register calls of the third goroutine: of a pair that may be
\* registered already, and under an identifier the table does not hold.
LateRegistrations ==
    { <<testEventID, failEventID, "pB", "deriveOne">>,
      <<2, deriveEventID, "pA", "deriveOne">> }

RECURSIVE RegisterAll(_, _)
\* The table after the Register calls of regs, made in order on t.
RegisterAll(t, regs) ==
    IF regs = <<>> THEN t
    ELSE RegisterAll(Register(t, regs[1][1], regs[1][2], regs[1][3],
                              regs[1][4]).table,
                     Tail(regs))

\* The objects goroutines share: the map Table, the map of one deriveFrom,
\* the base event, and the arrays its slices refer to.
TableObject == [obj |-> "Table", key |-> 0]
DeriveFnsObject(id) == [obj |-> "deriveFns", key |-> id]
EventObject == [obj |-> "event", key |-> 0]
ArrayObject(a) == [obj |-> "array", key |-> a]

\* The arrays of the base event ev.
ArraysOf(ev) ==
    {ArrayObject(a) : a \in {ev.Args, ev.StackAddresses,
                             ev.MatchedPolicies} \ {0}}

\* The shared objects that differ between the states s and t of the table,
\* the base event and the memory.
Written(s, t) ==
    (IF DOMAIN s.table # DOMAIN t.table THEN {TableObject} ELSE {})
        \cup {DeriveFnsObject(id) :
                 id \in {i \in DOMAIN s.table \cap DOMAIN t.table :
                            s.table[i] # t.table[i]}}
        \cup (IF s.event # t.event THEN {EventObject} ELSE {})
        \cup {o \in ArraysOf(s.event) : s.mem[o.key] # t.mem[o.key]}

\* A goroutine that has not called DeriveEvent yet.
NotStarted ==
    [pc |-> "idle", deriveFns |-> EmptyMap, pending |-> {}, order |-> <<>>,
     derivatives |-> <<>>, errors |-> <<>>, reads |-> {}, writes |-> {}]

ConcurrentInit ==
    /\ DeriveIdle
    /\ DecoderIdle
    /\ sequence = NotCalled
    /\ assembly = NotCalled
    /\ built = NotCalled
    /\ steps = NotCalled
    /\ parsed = NotCalled
    /\ runner = NotCalled
    /\ \E setup \in Setups, flags \in [PredNames -> BOOLEAN],
          id \in {testEventID, 2} :
           LET b == getTestEvent(id, MaxPolicies)
               start == [table |-> RegisterAll(EmptyMap, setup),
                         event |-> b.event, mem |-> b.mem]
           IN  conc = [op |-> "DeriveEvent", start |-> start,
                       table |-> start.table, event |-> start.event,
                       mem |-> start.mem, flags |-> flags,
                       procs |-> [g \in Goroutines |-> NotStarted],
                       reg |-> [pc |-> "idle", args |-> <<>>,
                                next |-> start.table, err |-> NoError,
                                reads |-> {}, writes |-> {}]]

\* The table, the base event and the memory of the state c.
Shared(c) == [table |-> c.table, event |-> c.event, mem |-> c.mem]

\* A Register call is writing the map Table in the state c.
WritingTable(c) == c.reg.pc = "writing" /\ TableObject \in c.reg.writes

\* Goroutine g enters DeriveEvent: deriveFns := t[events.ID(event.EventID)].
\* While a Register call is writing the map it reads, the runtime stops the
\* program, or the read sees the map as it was or as it will be.
ConcDeriveEventBegin(g) ==
    /\ conc.procs[g].pc = "idle"
    /\ \E t \in {conc.table}
              \cup (IF WritingTable(conc) THEN {conc.reg.next} ELSE {}),
          crash \in {FALSE} \cup (IF WritingTable(conc) THEN {TRUE} ELSE {}) :
           LET lk == lookupDeriveFns(t, conc.event.EventID)
               after == [Shared(conc) EXCEPT
                            !.table = IF lk.table = t THEN conc.table
                                      ELSE lk.table]
           IN  conc' =
                   [conc EXCEPT
                       !.table = after.table,
                       !.procs[g] =
                           [@ EXCEPT
                               !.pc = IF crash THEN "crashed" ELSE "loop",
                               !.deriveFns = lk.deriveFns,
                               !.pending = IF crash THEN {}
                                           ELSE DOMAIN lk.deriveFns,
                               !.reads = {TableObject, EventObject},
                               !.writes = Written(Shared(conc), after)]]
    /\ UNCHANGED <<deriveVars, decoderVars, sequence, assembly, built,
                   laterVars>>

\* One iteration of the loop of goroutine g, for an entry the range over the
\* map yields next.
ConcDeriveEventLoop(g) ==
    /\ conc.procs[g].pc = "loop"
    /\ \E id \in conc.procs[g].pending :
           LET me == conc.procs[g]
               r == deriveLoopBody(id, me.deriveFns[id], conc.flags,
                                   [st |-> State(conc.event, conc.mem),
                                    derivatives |-> me.derivatives,
                                    errors |-> me.errors,
                                    pending |-> me.pending,
                                    calls |-> NoCalls])
               after == [Shared(conc) EXCEPT !.event = r.st.event,
                                             !.mem = r.st.mem]
           IN  conc' =
                   [conc EXCEPT
                       !.event = r.st.event,
                       !.mem = r.st.mem,
                       !.procs[g] =
                           [@ EXCEPT
                               !.derivatives = r.derivatives,
                               !.errors = r.errors,
                               !.pending = r.pending,
                               !.order = Append(@, id),
                               !.reads = @ \cup {DeriveFnsObject(conc.event.EventID),
                                                 EventObject}
                                           \cup ArraysOf(conc.event),
                               !.writes = @ \cup Written(Shared(conc), after)]]
    /\ UNCHANGED <<deriveVars, decoderVars, sequence, assembly, built,
                   laterVars>>

\* The loop of goroutine g is over: return derivatives, errors.
ConcDeriveEventReturn(g) ==
    /\ conc.procs[g].pc = "loop"
    /\ conc.procs[g].pending = {}
    /\ conc' = [conc EXCEPT !.procs[g].pc = "returned"]
    /\ UNCHANGED <<deriveVars, decoderVars, sequence, assembly, built,
                   laterVars>>

\* The third goroutine enters Register: it reads the table, and returns the
\* AlreadyRegistered error at once or goes on to write.
ConcRegisterBegin ==
    /\ conc.reg.pc = "idle"
    /\ \E a \in LateRegistrations :
           LET res == Register(conc.table, a[1], a[2], a[3], a[4])
               w == Written(Shared(conc),
                            [Shared(conc) EXCEPT !.table = res.table])
                        \cup (IF a[1] \notin DOMAIN conc.table
                              THEN {DeriveFnsObject(a[1])} ELSE {})
           IN  conc' = [conc EXCEPT
                           !.reg = [pc |-> IF w = {} THEN "done"
                                           ELSE "writing",
                                    args |-> a, next |-> res.table,
                                    err |-> res.err,
                                    reads |-> {TableObject,
                                               DeriveFnsObject(a[1])},
                                    writes |-> w]]
    /\ UNCHANGED <<deriveVars, decoderVars, sequence, assembly, built,
                   laterVars>>

\* The goroutines whose loop ranges over the map Register writes.
Ranging(c) ==
    {g \in Goroutines :
        /\ c.procs[g].pc = "loop"
        /\ DeriveFnsObject(c.event.EventID) \in c.reg.writes
        /\ c.reg.args[2] \notin DOMAIN c.procs[g].deriveFns}

\* Register has written the entry. A loop that ranges over the map at the
\* time is stopped by the runtime, or yields the new entry later on, or does
\* not.
ConcRegisterEnd ==
    /\ conc.reg.pc = "writing"
    /\ \E outcome \in [Ranging(conc) -> {"crash", "seen", "unseen"}] :
           conc' =
               [conc EXCEPT
                   !.table = conc.reg.next,
                   !.reg.pc = "done",
                   !.procs =
                       [g \in Goroutines |->
                           IF g \notin Ranging(conc)
                              \/ outcome[g] = "unseen"
                           THEN conc.procs[g]
                           ELSE IF outcome[g] = "crash"
                           THEN [conc.procs[g] EXCEPT !.pc = "crashed",
                                                      !.pending = {}]
                           ELSE [conc.procs[g] EXCEPT
                                    !.deriveFns =
                                        conc.reg.next[conc.event.EventID],
                                    !.pending = @ \cup {conc.reg.args[2]}]]]
    /\ UNCHANGED <<deriveVars, decoderVars, sequence, assembly, built,
                   laterVars>>

ConcurrentNext ==
    \/ \E g \in Goroutines : ConcDeriveEventBegin(g)
    \/ \E g \in Goroutines : ConcDeriveEventLoop(g)
    \/ \E g \in Goroutines : ConcDeriveEventReturn(g)
    \/ ConcRegisterBegin
    \/ ConcRegisterEnd

SpecConcurrent == ConcurrentInit /\ [][ConcurrentNext]_vars

\* --------------------------------------- the claims: concurrent derivation

\* No Register call has been made since the goroutines started.
NoRegister == conc.op = "DeriveEvent" /\ conc.reg.pc = "idle"

Returned(g) == conc.op = "DeriveEvent" /\ conc.procs[g].pc = "returned"

\* What goroutine g returned: the events with the arrays they refer to, and
\* the errors.
EventsOf(g) ==
    [i \in 1..Len(conc.procs[g].derivatives) |->
        Deep(conc.procs[g].derivatives[i], conc.mem)]
ErrorsOf(g) == conc.procs[g].errors

RECURSIVE AloneFrom(_, _)
\* DeriveEvent running alone from the start of the run, visiting the entries
\* in the given order.
AloneFrom(order, acc) ==
    IF order = <<>> THEN acc
    ELSE AloneFrom(Tail(order),
                   deriveLoopBody(
                       Head(order),
                       conc.start.table[conc.start.event.EventID][Head(order)],
                       conc.flags, acc))

Alone(order) ==
    LET acc == AloneFrom(order,
                         [st |-> State(conc.start.event, conc.start.mem),
                          derivatives |-> <<>>, errors |-> <<>>,
                          pending |-> {}, calls |-> NoCalls])
    IN  [events |-> [i \in 1..Len(acc.derivatives) |->
                        Deep(acc.derivatives[i], acc.st.mem)],
         errors |-> acc.errors]

\* The accesses of each goroutine, and the pairs of goroutines with
\* conflicting accesses: a writes an object that b reads or writes.
Actors == Goroutines \cup {"Register"}
ReadsOf(a) == IF a = "Register" THEN conc.reg.reads ELSE conc.procs[a].reads
WritesOf(a) == IF a = "Register" THEN conc.reg.writes ELSE conc.procs[a].writes
Conflicts ==
    {c \in [writer : Actors, other : Actors,
            object : UNION {WritesOf(a) : a \in Actors}] :
        /\ c.writer # c.other
        /\ c.object \in WritesOf(c.writer)
        /\ c.object \in ReadsOf(c.other) \cup WritesOf(c.other)}

\* C24: Concurrent derivation is safe once registration has completed. In
\* every interleaving of DeriveEvent calls on one Table and one base event,
\* no DeriveEvent call writes to the table or to the base event; without a
\* concurrent Register the table and the base event stay as they were and a
\* call that has returned has returned the events and the errors it returns
\* when it runs alone; and any conflicting access has a Register call as
\* its writer.
C24_ConcurrentDerivation ==
    conc.op = "DeriveEvent" =>
        /\ \A g \in Goroutines : conc.procs[g].writes = {}
        /\ conc.event = conc.start.event
        /\ Deep(conc.event, conc.mem) = Deep(conc.start.event, conc.start.mem)
        /\ NoRegister =>
               /\ conc.table = conc.start.table
               /\ Conflicts = {}
               /\ \A g \in Goroutines :
                      Returned(g) =>
                          /\ EventsOf(g) = Alone(conc.procs[g].order).events
                          /\ ErrorsOf(g) = Alone(conc.procs[g].order).errors
        /\ \A c \in Conflicts : c.writer = "Register"

\* Both goroutines have returned events and errors, the second having
\* started before the first was done.
C24_Witness ==
    /\ NoRegister
    /\ \A g \in Goroutines :
           /\ Returned(g)
           /\ Len(conc.procs[g].derivatives) >= 2
           /\ Len(conc.procs[g].errors) >= 1
    /\ \E i \in 1..Len(conc.procs["g1"].derivatives) :
           conc.procs["g1"].derivatives[i].Args
               > conc.procs["g2"].derivatives[1].Args
    /\ \E i \in 1..Len(conc.procs["g2"].derivatives) :
           conc.procs["g2"].derivatives[i].Args
               > conc.procs["g1"].derivatives[1].Args

\* Register has written the map a DeriveEvent call ranges over.
C24_WitnessConflict ==
    /\ conc.op = "DeriveEvent"
    /\ conc.reg.pc = "done"
    /\ \E c \in Conflicts :
           c.writer = "Register" /\ c.other = "g1"
               /\ c.object = DeriveFnsObject(testEventID)

\* What a rule returns when it is invoked: the identifier and the values of
\* each event, in order.
EventKey(e) ==
    [id |-> e.EventID,
     values |-> IF e.Args.nil THEN <<>>
                ELSE [j \in 1..Len(e.Args.elems) |-> e.Args.elems[j].Value]]

BlockOf(r) ==
    IF r.kind = "func"
    THEN [i \in 1..Len(r.events) |->
             [id |-> r.events[i].EventID, values |-> <<>>]]
    ELSE [i \in 1..Len(GoodTuples(r)) |->
             [id |-> r.id, values |-> GoodTuples(r)[i]]]

RECURSIVE Blocks(_, _)
\* The blocks of the rules of the entries visited in the given order, for
\* the rules whose predicate holds.
Blocks(g, order) ==
    IF order = <<>> THEN <<>>
    ELSE LET deriveFn == conc.procs[g].deriveFns[Head(order)]
         IN  (IF conc.flags[deriveFn.Enabled]
              THEN BlockOf(Rule(deriveFn.DeriveFunction)) ELSE <<>>)
                 \o Blocks(g, Tail(order))

\* C25: Ordering is preserved per rule. The events a function built by
\* deriveMultipleEvents returns are in the order of the tuples they were
\* built from, the tuples of a wrong arity being left out, and in the
\* result of DeriveEvent the events of one rule are one contiguous block in
\* that order: the result is the blocks of the rules, one after the other
\* in the order of the visits.
C25_OrderPerRule ==
    \A g \in Goroutines :
        (NoRegister /\ conc.procs[g].pc \in {"loop", "returned"}) =>
            [i \in 1..Len(EventsOf(g)) |-> EventKey(EventsOf(g)[i])]
                = Blocks(g, conc.procs[g].order)

\* The rule of the tuples <<5, 6>>, <<9>>, <<7, 8>> was visited after the
\* rule of <<1, 2>>, <<3, 4>>: four events, block after block.
C25_Witness ==
    /\ NoRegister
    /\ Returned("g1")
    /\ Len(conc.procs["g1"].order) >= 2
    /\ conc.procs["g1"].order[1] = noDerivationEventID
    /\ conc.procs["g1"].order[2] = deriveEventID
    /\ [i \in 1..Len(EventsOf("g1")) |-> EventKey(EventsOf("g1")[i]).values]
           = << <<1, 2>>, <<3, 4>>, <<5, 6>>, <<7, 8>> >>

\* How often x occurs in the sequence q.
Occurrences(x, q) == Cardinality({i \in 1..Len(q) : q[i] = x})

SameMultiset(q, u) ==
    /\ Len(q) = Len(u)
    /\ \A i \in 1..Len(q) : Occurrences(q[i], q) = Occurrences(q[i], u)

\* C26: no result of DeriveEvent depends on the order in which the rules of
\* one identifier are visited. With the table and the values of the
\* predicates fixed, two DeriveEvent calls on the same base event that have
\* visited the rules in whatever orders have returned the same multiset of
\* derived events and the same multiset of wrapped errors.
C26_OrderIndependence ==
    (NoRegister /\ Returned("g1") /\ Returned("g2")) =>
        /\ SameMultiset(EventsOf("g1"), EventsOf("g2"))
        /\ SameMultiset(ErrorsOf("g1"), ErrorsOf("g2"))

\* The two calls have visited three rules in opposite orders and returned
\* four events and two errors each.
C26_Witness ==
    /\ NoRegister
    /\ Returned("g1") /\ Returned("g2")
    /\ Len(conc.procs["g1"].order) = 3
    /\ \A i \in 1..3 : conc.procs["g1"].order[i] = conc.procs["g2"].order[4 - i]
    /\ Len(EventsOf("g1")) = 4
    /\ Len(ErrorsOf("g1")) = 2
    /\ EventsOf("g1") # EventsOf("g2")

\* ------------------------------------- the claims: deriveSingleEvent alone

\* The last call was of a function deriveSingleEvent built; the error its
\* argument function returned, if any.
SingleCalled == built.op = "deriveSingleEvent"
SingleArityOK == Len(built.args.elems) = Len(BuiltFields)
SchemaMismatch ==
    unexpectedArgCountError(getEventDefinition(built.id).Name,
                            Len(BuiltFields), Len(built.args.elems))

\* C31: for a function built by deriveSingleEvent the events and the errors
\* are decided independently. An event is built if and only if deriveArgs
\* returned arguments that are not nil, the empty tuple that is not nil
\* among them, and these are checked against the number of fields of the
\* schema; the error of deriveArgs is returned if and only if it is not
\* nil. Arguments that fit together with an error give one event and one
\* error.
C31_SingleEventIndependent ==
    SingleCalled =>
        LET own == built.reported
            evs == built.r.events
            ers == built.r.errs
        IN  /\ Len(ers) >= Len(own)
            /\ SubSeq(ers, 1, Len(own)) = own
            /\ IF built.args.nil
               THEN evs = <<>> /\ ers = own
               ELSE IF SingleArityOK
               THEN /\ Len(evs) = 1
                    /\ evs[1].EventID = built.id
                    /\ BuiltValues(evs[1]) = built.args.elems
                    /\ ers = own
               ELSE /\ evs = <<>>
                    /\ ers = Append(own, SchemaMismatch)

\* Arguments that fit the schema and an error: one event, one error.
C31_Witness ==
    /\ SingleCalled
    /\ built.id = deriveEventID
    /\ built.args = Slice(<<1, 2>>)
    /\ Len(built.reported) = 1
    /\ Len(built.r.events) = 1
    /\ built.r.errs = built.reported

\* The empty tuple that is not nil is checked against the schema.
C31_WitnessEmptyTuple ==
    /\ SingleCalled
    /\ built.args = Slice(<<>>)
    /\ built.reported = <<>>
    /\ built.r.events = <<>>
    /\ Len(built.r.errs) = 1
    /\ built.r.errs[1].kind = "UnexpectedArgumentCount"

\* ----------------------------------------- the claims: the frame of Register

\* What DeriveEvent finds in the table t for the identifier id.
BucketOf(t, id) == lookupDeriveFns(t, id).deriveFns

\* The step is a Register call that added the pair (s, to).
Registered(s, to) ==
    /\ table' # table
    /\ to \notin DOMAIN BucketOf(table, s)
    /\ to \in DOMAIN BucketOf(table', s)

\* C32: Register changes only the pair it registers. A successful
\* Register(s, t, ...) leaves the rule and the predicate of every other
\* pair as they were; a DeriveEvent call on an event of the identifier s
\* that follows evaluates the predicate of the new rule, and a DeriveEvent
\* call on any other identifier finds what it found before. A Register that
\* fails changes no entry and makes no new bucket.
C32_RegisterFrame ==
    /\ [][/\ table' # table =>
                 \E s \in BaseIDs, to \in TargetIDs :
                     /\ Registered(s, to)
                     /\ regResult' = NoError
                     /\ \A id \in BaseIDs \ {s} :
                            BucketOf(table', id) = BucketOf(table, id)
                     /\ DOMAIN BucketOf(table', s)
                            = DOMAIN BucketOf(table, s) \cup {to}
                     /\ \A o \in DOMAIN BucketOf(table, s) :
                            BucketOf(table', s)[o] = BucketOf(table, s)[o]
          /\ regResult' # NoError =>
                 /\ DOMAIN table' = DOMAIN table
                 /\ \A id \in DOMAIN table : table'[id] = table[id]]_vars
    /\ [](pc \in {"loop", "returned"} =>
              /\ deriveFns = BucketOf(table, event.EventID)
              /\ \A to \in DOMAIN BucketOf(table, event.EventID) \ pending :
                     Len(calls[to].pred) = 1
              /\ \A to \in TargetIDs \ DOMAIN BucketOf(table, event.EventID) :
                     calls[to] = [pred |-> <<>>, fn |-> 0])

\* The table holds two buckets, the one of the event with two rules, and the
\* DeriveEvent call has evaluated the predicates of both.
C32_Witness ==
    /\ pc = "returned"
    /\ event.EventID = testEventID
    /\ DOMAIN table = {testEventID, 2}
    /\ Cardinality(DOMAIN table[testEventID]) = 2
    /\ \A to \in DOMAIN table[testEventID] : Len(calls[to].pred) = 1
    /\ regResult = NoError

\* A Register call has failed on a table of two buckets.
C32_WitnessFailed ==
    /\ regResult # NoError
    /\ DOMAIN table = {testEventID, 2}

\* --------------------------------- the claims: the signed fixed-width decoders

\* The carry into the digit i of the sum of the digit strings a and b.
RECURSIVE CarryInto(_, _, _)
CarryInto(a, b, i) ==
    IF i = 0 THEN 0 ELSE (a[i - 1] + b[i - 1] + CarryInto(a, b, i - 1)) \div 256

\* a + b = 256^w for the strings a and b of w digits.
SumIsModulus(a, b) ==
    LET w == Cardinality(DOMAIN a)
    IN  /\ DOMAIN b = DOMAIN a
        /\ \A i \in DOMAIN a : (a[i] + b[i] + CarryInto(a, b, i)) % 256 = 0
        /\ CarryInto(a, b, w) = 1

\* The signed value sv is the reinterpretation of the unsigned value u of w
\* digits: u below 256^w / 2, and u - 256^w from there on.
ReinterpretsDigits(sv, u) ==
    LET w == Cardinality(DOMAIN u)
    IN  IF u[w - 1] < 128
        THEN sv.neg = FALSE /\ sv.mag = u
        ELSE sv.neg = TRUE /\ SumIsModulus(sv.mag, u)

\* The signed value sv of w digits is in [-256^w / 2, 256^w / 2 - 1].
InSignedRange(sv) ==
    LET w == Cardinality(DOMAIN sv.mag)
    IN  \/ sv.mag[w - 1] < 128
        \/ /\ sv.neg
           /\ sv.mag[w - 1] = 128
           /\ \A i \in DOMAIN sv.mag : i < w - 1 => sv.mag[i] = 0

\* The same for the widths whose values are numbers: m is 256^w.
ReinterpretsNumber(v, u, m) ==
    /\ v = IF u < m \div 2 THEN u ELSE u - m
    /\ -(m \div 2) <= v /\ v <= m \div 2 - 1
    /\ (v - u) % m = 0

\* The unsigned 32-bit and 64-bit values at the offset off of the decoder
\* the call started with.
Uint32At(off) ==
    DecodeUint32([call.before EXCEPT !.cursor = @ + off], 0).msg
Uint64At(off) ==
    DecodeUint64([call.before EXCEPT !.cursor = @ + off], 0).msg

SignedDecoded(op) == call.op = op /\ call.err = NoError

\* C33: a signed decoder returns the two's-complement reinterpretation of
\* the little-endian unsigned value u of the bytes it reads: u when u is
\* below 2^(w-1), u - 2^w otherwise, so a value in
\* [-2^(w-1), 2^(w-1) - 1] that is congruent modulo 2^w to what the
\* unsigned decoder of the same width returns on the same bytes. The event
\* identifier, the syscall identifier and the return value of DecodeContext
\* are reinterpreted the same way.
C33_SignedReinterpretation ==
    /\ SignedDecoded("DecodeInt8") =>
           ReinterpretsNumber(call.msg, DecodeUint8(call.before, 0).msg, 256)
    /\ SignedDecoded("DecodeInt16") =>
           ReinterpretsNumber(call.msg, DecodeUint16(call.before, 0).msg,
                              65536)
    /\ SignedDecoded("DecodeInt32") =>
           /\ ReinterpretsDigits(call.msg, Uint32At(0))
           /\ InSignedRange(call.msg)
    /\ SignedDecoded("DecodeInt64") =>
           /\ ReinterpretsDigits(call.msg, Uint64At(0))
           /\ InSignedRange(call.msg)
    /\ SignedDecoded("DecodeContext") =>
           /\ ReinterpretsDigits(call.msg.EventID, Uint32At(112))
           /\ ReinterpretsDigits(call.msg.Syscall, Uint32At(116))
           /\ ReinterpretsDigits(call.msg.Retval, Uint64At(120))
           /\ InSignedRange(call.msg.EventID)
           /\ InSignedRange(call.msg.Syscall)
           /\ InSignedRange(call.msg.Retval)

\* A 32-bit decode of bytes whose top bit is set has returned a negative
\* value.
C33_Witness ==
    /\ SignedDecoded("DecodeInt32")
    /\ Uint32At(0)[3] >= 128
    /\ call.msg.neg

\* A header with a negative syscall identifier and return value, and a
\* positive event identifier, has been decoded.
C33_WitnessContext ==
    /\ SignedDecoded("DecodeContext")
    /\ call.msg.Syscall.neg /\ call.msg.Retval.neg
    /\ ~call.msg.EventID.neg

\* 8-bit and 16-bit decodes of bytes whose top bit is set.
C33_WitnessNarrow ==
    \/ SignedDecoded("DecodeInt8") /\ call.msg < 0
    \/ SignedDecoded("DecodeInt16") /\ call.msg < 0

\* ===================================================== the loops, step by step
\*
\* One call of DecodeUint64Array, of DecodeArguments or of DeriveEvent per
\* run, followed iteration by iteration in the variable steps.

MaxSteps == 2

\* One pass through the text of DecodeUint64Array from the point s.pc: the
\* read of the count, or the test of the loop and one iteration. reads
\* counts the DecodeUint64 calls and failed those that returned an error.
uint64ArrayIterationSkipsShort(s) ==
    IF s.pc = "count"
    THEN LET r == DecodeUint16(s.decoder, 0)
         IN  IF r.err # NoError
             THEN [s EXCEPT !.pc = "done", !.decoder = r.decoder,
                            !.err = r.err]
             ELSE [s EXCEPT !.pc = "loop", !.decoder = r.decoder,
                            !.arrLen = r.msg, !.i = 0]
    ELSE IF ~(s.i < s.arrLen) THEN [s EXCEPT !.pc = "done", !.err = NoError]
    ELSE LET r == DecodeUint64(s.decoder, ZeroUint64)
         IN  IF r.err # NoError
             THEN [s EXCEPT !.decoder = r.decoder, !.i = @ + 1,
                            !.reads = @ + 1, !.failed = @ + 1]
             ELSE [s EXCEPT !.decoder = r.decoder,
                            !.msg = Append(@, r.msg), !.i = @ + 1,
                            !.reads = @ + 1]

uint64ArrayIteration(s) ==
    IF s.pc = "count"
    THEN LET r == DecodeUint16(s.decoder, 0)
         IN  IF r.err = Panic
             THEN [s EXCEPT !.pc = "done", !.decoder = r.decoder,
                            !.err = Panic]
             ELSE IF r.err # NoError
             THEN [s EXCEPT
                     !.pc = "done", !.decoder = r.decoder,
                     !.err = Errorf("error reading ulong array number of elements: %v",
                                    <<r.err>>)]
             ELSE [s EXCEPT !.pc = "loop", !.decoder = r.decoder,
                            !.arrLen = r.msg, !.i = 0]
    ELSE IF ~(s.i < s.arrLen) THEN [s EXCEPT !.pc = "done", !.err = NoError]
    ELSE LET r == DecodeUint64(s.decoder, ZeroUint64)
         IN  IF r.err = Panic
             THEN [s EXCEPT !.pc = "done", !.decoder = r.decoder,
                            !.err = Panic, !.reads = @ + 1,
                            !.failed = @ + 1]
             ELSE IF r.err # NoError
             THEN [s EXCEPT
                     !.pc = "done", !.decoder = r.decoder,
                     !.err = Errorf("can't read element %d uint64 from buffer: %s",
                                    <<s.i, r.err>>),
                     !.reads = @ + 1, !.failed = @ + 1]
             ELSE [s EXCEPT !.decoder = r.decoder,
                            !.msg = Append(@, r.msg), !.i = @ + 1,
                            !.reads = @ + 1]

\* One pass through the text of DecodeArguments from the point s.pc: the
\* test of the first loop and one iteration of it, or the whole of the
\* second loop. reads counts the readArgFromBuff calls and fills the passes
\* of the second loop.
argumentsIteration(s) ==
    IF s.pc = "reads"
    THEN IF ~(s.i < s.argnum) THEN [s EXCEPT !.pc = "fill"]
         ELSE LET l == argumentsLoop(s.a.decoder, s.a.args, s.a.logs, s.i,
                                     s.i + 1, s.evtFields, "test_event",
                                     testEventID)
              IN  IF l.err = Panic
                  THEN [s EXCEPT !.pc = "done", !.a = l, !.reads = @ + 1]
                  ELSE [s EXCEPT !.a = l, !.i = @ + 1, !.reads = @ + 1]
    ELSE IF Len(s.evtFields) > Len(s.a.args)
    THEN [s EXCEPT
            !.pc = "done", !.fills = @ + 1,
            !.a = [@ EXCEPT
                     !.err = Panic,
                     !.args = fillMissing(@, SubSeq(s.evtFields, 1, Len(@)))]]
    ELSE [s EXCEPT !.pc = "done", !.fills = @ + 1,
                   !.a = [@ EXCEPT !.args = fillMissing(@, s.evtFields)]]

\* The orders in which a range loop may visit the keys S of a map: Go draws
\* the order when the loop starts.
Orders(S) ==
    {q \in SeqsUpTo(S, Cardinality(S)) :
        /\ Len(q) = Cardinality(S)
        /\ \A i, j \in 1..Len(q) : q[i] = q[j] => i = j}

RECURSIVE deriveLoopFrom(_, _, _, _)
\* What the iterations of the loop of DeriveEvent leave one after the other,
\* the keys of fns being visited in the order given, from acc on.
deriveLoopFrom(order, fns, flags, acc) ==
    IF order = <<>> THEN <<>>
    ELSE LET after == deriveLoopBody(order[1], fns[order[1]], flags, acc)
         IN  <<after>> \o deriveLoopFrom(Tail(order), fns, flags, after)

\* One pass through the text of DeriveEvent from the point s.pc: the test
\* of the loop and one iteration, whose results are those of s.plan.
deriveEventIteration(s) ==
    IF s.plan = <<>> THEN [s EXCEPT !.pc = "done"]
    ELSE [s EXCEPT !.acc = Head(s.plan), !.plan = Tail(@),
                   !.visited = Append(@, s.order[Len(@) + 1])]

\* The table the Register calls of setup made, and the first registration of
\* each of its pairs.
StepsInit ==
    /\ \E setup \in Setups :
           /\ table = RegisterAll(EmptyMap, setup)
           /\ firstReg =
                  [p \in {<<setup[k][1], setup[k][2]>> : k \in DOMAIN setup} |->
                      LET k == CHOOSE k \in DOMAIN setup :
                                   <<setup[k][1], setup[k][2]>> = p
                      IN  Entry(setup[k][4], setup[k][3])]
    /\ enabled \in [PredNames -> BOOLEAN]
    /\ regResult = NoError
    /\ pc = "idle"
    /\ event = ZeroEvent
    /\ mem = EmptyMem
    /\ deriveFns = EmptyMap
    /\ pending = {}
    /\ derivatives = <<>>
    /\ errors = <<>>
    /\ calls = NoCalls
    /\ mutations = 0
    /\ DecoderIdle
    /\ StandaloneIdle

\* Nothing has been called in this run.
StepsIdle == steps = NotCalled /\ pc = "idle"

\* decoder.DecodeUint64Array(msg) is called on a new decoder: on a buffer
\* that holds an array or is too short for the count, with a destination
\* that is empty or holds one element.
StepDecodeUint64ArrayBegin ==
    /\ StepsIdle
    /\ \E b \in ArrayBuffers \cup {<<>>, <<1>>},
          msg \in {<<>>, <<ZeroUint64>>} :
           steps' = [op |-> "DecodeUint64Array", pc |-> "count",
                     start |-> New(b, "NewTypeDecoder"), msgBefore |-> msg,
                     decoder |-> New(b, "NewTypeDecoder"), msg |-> msg,
                     i |-> 0, arrLen |-> 0, err |-> NoError,
                     reads |-> 0, failed |-> 0]
    /\ UNCHANGED <<deriveVars, decoderVars, sequence, assembly, built, conc,
                   parsed, runner>>

StepDecodeUint64Array ==
    /\ steps.op = "DecodeUint64Array"
    /\ steps.pc # "done"
    /\ steps' = uint64ArrayIteration(steps)
    /\ UNCHANGED <<deriveVars, decoderVars, sequence, assembly, built, conc,
                   parsed, runner>>

\* The arguments of the streams that are followed step by step: those of
\* the first field of the schema, and the one of an index past the last
\* field.
StepItems(evtFields) ==
    {it \in Items(evtFields) : it[1] = 0 \/ it[1] = Len(evtFields)}

\* decoder.DecodeArguments is called with the arguments of a stream of at
\* most MaxSteps arguments, whole or with its last byte cut off, and an
\* argnum that is the number of arguments of the stream, one less or one
\* more.
StepDecodeArgumentsBegin ==
    /\ StepsIdle
    /\ \E evtFields \in Schemas, d \in {-1, 0, 1}, cut \in {0, 1} :
       \E q \in SeqsUpTo(StepItems(evtFields), MaxSteps) :
           LET bytes == Concat(q)
               before == New(SubSeq(bytes, 1, Len(bytes) - cut),
                             "NewTypeDecoder")
               args == [i \in 1..Len(evtFields) |-> EmptyArgument]
           IN  /\ cut <= Len(bytes)
               /\ steps' = [op |-> "DecodeArguments", pc |-> "reads",
                            start |-> before, argsBefore |-> args,
                            argnum |-> Len(q) + d, evtFields |-> evtFields,
                            a |-> Assembled(before, args, NoError, <<>>),
                            i |-> 0, reads |-> 0, fills |-> 0]
    /\ UNCHANGED <<deriveVars, decoderVars, sequence, assembly, built, conc,
                   parsed, runner>>

StepDecodeArguments ==
    /\ steps.op = "DecodeArguments"
    /\ steps.pc # "done"
    /\ steps' = argumentsIteration(steps)
    /\ UNCHANGED <<deriveVars, decoderVars, sequence, assembly, built, conc,
                   parsed, runner>>

\* t.DeriveEvent(event) is called, up to the loop: lines 46 to 48.
StepDeriveEventBegin ==
    /\ StepsIdle
    /\ \E id \in BaseIDs :
           LET b == getTestEvent(id, MaxPolicies)
               fns == lookupDeriveFns(table, id).deriveFns
               acc == [st |-> State(b.event, b.mem), derivatives |-> <<>>,
                       errors |-> <<>>, pending |-> DOMAIN fns,
                       calls |-> NoCalls]
           IN  \E order \in Orders(DOMAIN fns) :
                   steps' = [op |-> "DeriveEvent", pc |-> "loop",
                             fns |-> fns, order |-> order,
                             visited |-> <<>>, acc |-> acc,
                             plan |-> deriveLoopFrom(order, fns, enabled,
                                                     acc)]
    /\ UNCHANGED <<deriveVars, decoderVars, sequence, assembly, built, conc,
                   parsed, runner>>

StepDeriveEvent ==
    /\ steps.op = "DeriveEvent"
    /\ steps.pc # "done"
    /\ steps' = deriveEventIteration(steps)
    /\ UNCHANGED <<deriveVars, decoderVars, sequence, assembly, built, conc,
                   parsed, runner>>

StepsNext ==
    \/ StepDecodeUint64ArrayBegin
    \/ StepDecodeUint64Array
    \/ StepDecodeArgumentsBegin
    \/ StepDecodeArguments
    \/ StepDeriveEventBegin
    \/ StepDeriveEvent

\* A call that has started goes on: the goroutine that made it is scheduled
\* again, and every predicate and derive function it calls returns.
SpecSteps ==
    /\ StepsInit
    /\ [][StepsNext]_vars
    /\ WF_vars(StepDecodeUint64Array)
    /\ WF_vars(StepDecodeArguments)
    /\ WF_vars(StepDeriveEvent)

\* ------------------------------------------------- the claims: termination

StepsDone(op) == steps.op = op /\ steps.pc = "done"

\* The number of times max(n, 0) a loop "for i := 0; i < n; i++" runs.
Iterations(n) == IF n > 0 THEN n ELSE 0

\* The count the two bytes at the cursor of the decoder d announce.
Announced(d) == DecodeUint16(d, 0).msg

\* The rules of the event's identifier the loop of DeriveEvent has visited.
Visited == {steps.visited[k] : k \in DOMAIN steps.visited}

\* C34: every operation runs to completion or fails synchronously.
\* DecodeArguments ends after at most argnum reads and one pass of the fill
\* loop; DecodeUint64Array ends after at most the announced 16-bit count of
\* elements and makes no read after the first short one; DeriveEvent ends
\* after visiting each rule registered for the identifier once, every
\* predicate and derive function returning.
C34_Termination ==
    /\ (steps.op = "DecodeArguments") ~> StepsDone("DecodeArguments")
    /\ (steps.op = "DecodeUint64Array") ~> StepsDone("DecodeUint64Array")
    /\ (steps.op = "DeriveEvent") ~> StepsDone("DeriveEvent")
    /\ [](steps.op = "DecodeArguments" =>
              /\ steps.reads <= Iterations(steps.argnum)
              /\ steps.fills <= 1
              /\ steps.pc = "done" /\ steps.a.err = NoError =>
                     /\ steps.reads = Iterations(steps.argnum)
                     /\ steps.fills = 1
              /\ steps.pc = "done" =>
                     steps.a = DecodeArguments(steps.start, steps.argsBefore,
                                               steps.argnum, steps.evtFields,
                                               "test_event", testEventID))
    /\ [](steps.op = "DecodeUint64Array" =>
              /\ steps.arrLen <= 65535
              /\ steps.pc # "count" =>
                     /\ steps.arrLen = Announced(steps.start)
                     /\ steps.reads <= steps.arrLen
              /\ steps.failed <= 1
              /\ steps.failed = 1 => steps.pc = "done" /\ steps.err # NoError
              /\ Len(steps.msg)
                     = Len(steps.msgBefore) + steps.reads - steps.failed
              /\ steps.pc = "done" /\ steps.err = NoError =>
                     steps.reads = steps.arrLen
              /\ steps.pc = "done" =>
                     Ret(steps.decoder, steps.msg, steps.err)
                         = DecodeUint64Array(steps.start, steps.msgBefore))
    /\ [](steps.op = "DeriveEvent" =>
              /\ Len(steps.visited) = Cardinality(Visited)
              /\ Visited = DOMAIN steps.fns \ steps.acc.pending
              /\ \A to \in Visited : Len(steps.acc.calls[to].pred) = 1
              /\ \A to \in TargetIDs \ Visited :
                     Len(steps.acc.calls[to].pred) = 0
              /\ steps.pc = "done" =>
                     Visited = DOMAIN BucketOf(table, steps.acc.st.event.EventID))

\* An array of 256 announced elements has ended at its second read, the
\* first short one.
C34_Witness ==
    /\ StepsDone("DecodeUint64Array")
    /\ steps.arrLen = 256
    /\ steps.reads = 2
    /\ steps.failed = 1

\* A DecodeArguments call has ended after two reads, one of them failed, and
\* the fill pass.
C34_WitnessArguments ==
    /\ StepsDone("DecodeArguments")
    /\ steps.reads = 2
    /\ steps.fills = 1
    /\ Len(steps.a.logs) >= 1

\* A DeriveEvent call has returned after visiting three rules.
C34_WitnessDeriveEvent ==
    /\ StepsDone("DeriveEvent")
    /\ Cardinality(Visited) = 3
    /\ Len(steps.acc.derivatives) >= 1
    /\ Len(steps.acc.errors) >= 1

\* ======================================================= the argument parsers
\*
\* One call of ParseArgs or of NormalizeTimeArgs per run, in the variable
\* parsed.

MaxArgs == 2
MaxNames == 3

\* One identifier of every case of the switch of ParseArgs, Fchmodat, and
\* an identifier the switch has no case for.
ParsedIDs ==
    {"MemProtAlert", "SysEnter", "CapCapable", "SecurityMmapFile", "Mmap",
     "SecurityFileMprotect", "Ptrace", "Prctl", "Socketcall", "Socket",
     "SecuritySocketCreate", "Access", "Faccessat", "Execveat", "Open",
     "Chmod", "Fchmodat", "Clone", "Bpf", "SecurityKernelReadFile",
     "SchedProcessExec", "DirtyPipeSplice", "Setsockopt", "BpfAttach",
     "SecurityBpfProg", "SecurityPathNotify", "StackPivot", "Read"}

\* The arguments the events of the identifier evtID are made of: for the
\* first two names the switch asks for, an argument of the asserted type, one
\* of another type and a pointer; and two pointers under other names.
ArgPool(evtID) ==
    LET cs == ParseCases(evtID)
        sel == {cs[k] : k \in {k \in DOMAIN cs : k <= 2}}
    IN  {Argument(c.name, c.type, TypedValue(c.type, 3)) : c \in sel}
        \cup {Argument(c.name, "long",
                       TypedValue(IF c.type = "int64" THEN "int32"
                                  ELSE "int64", 4)) : c \in sel}
        \cup {Argument(c.name, "void*", TypedValue("Pointer", 2147483647)) :
                  c \in sel}
        \cup {Argument("addr", "void*", TypedValue("Pointer", 48879)),
              Argument("buf", "void*", TypedValue("Pointer", 0))}

\* The arguments NormalizeTimeArgs is called with, and the names.
TimeArgPool ==
    {Argument("start_time", "unsigned long", TypedValue("uint64", 5)),
     Argument("start_time", "unsigned long", NilValue),
     Argument("exit_time", "unsigned long", TypedValue("uint64", 7)),
     Argument("exit_time", "int", TypedValue("int32", 3)),
     Argument("comm", "const char*", StringValue(<<"s", "h">>))}

TimeArgNames == {"start_time", "exit_time", "boot_time"}

ParseInit ==
    /\ DeriveIdle
    /\ DecoderIdle
    /\ StandaloneIdle

\* ParseArgs(&event) is called on an event of at most MaxArgs arguments.
ParseArgsCall ==
    /\ parsed = NotCalled
    /\ \E evtID \in ParsedIDs, effect \in {"rewrites", "keeps"} :
       \E args \in SeqsUpTo(ArgPool(evtID), MaxArgs) :
           LET ev == [EventID |-> evtID, Args |-> args]
           IN  parsed' = [op |-> "ParseArgs", event |-> ev,
                          effect |-> effect, r |-> ParseArgs(ev, effect)]
    /\ UNCHANGED <<deriveVars, decoderVars, sequence, assembly, built, conc,
                   steps, runner>>

\* NormalizeTimeArgs(args, timeArgNames) is called with at most MaxArgs
\* arguments and at most MaxNames names.
NormalizeTimeArgsCall ==
    /\ parsed = NotCalled
    /\ \E args \in SeqsUpTo(TimeArgPool, MaxArgs),
          timeArgNames \in SeqsUpTo(TimeArgNames, MaxNames) :
           parsed' = [op |-> "NormalizeTimeArgs", args |-> args,
                      timeArgNames |-> timeArgNames,
                      r |-> NormalizeTimeArgs(args, timeArgNames)]
    /\ UNCHANGED <<deriveVars, decoderVars, sequence, assembly, built, conc,
                   steps, runner>>

ParseNext == ParseArgsCall \/ NormalizeTimeArgsCall

SpecParse == ParseInit /\ [][ParseNext]_vars

\* ----------------------------------------------------- the claims: ParseArgs

LowerHex == {Digits[k] : k \in DOMAIN Digits}

RECURSIVE HexValue(_)
\* The number the hexadecimal digits q write.
HexValue(q) ==
    IF q = <<>> THEN 0
    ELSE 16 * HexValue(SubSeq(q, 1, Len(q) - 1))
         + (CHOOSE k \in DOMAIN Digits : Digits[k] = q[Len(q)]) - 1

\* chars is "0x" followed by the lower-case hexadecimal digits of n.
IsHexOf(chars, n) ==
    /\ Len(chars) >= 3
    /\ chars[1] = "0" /\ chars[2] = "x"
    /\ \A k \in 3..Len(chars) : chars[k] \in LowerHex
    /\ Len(chars) > 3 => chars[3] # "0"
    /\ HexValue(SubSeq(chars, 3, Len(chars))) = n

ParseArgsCalled == parsed.op = "ParseArgs"

\* The argument i of args is the one a GetArg call of the switch for the
\* identifier evtID returns, and its value has the type asserted.
SelectedAsTyped(evtID, args, i) ==
    \E k \in DOMAIN ParseCases(evtID) :
        /\ ParseCases(evtID)[k].name = args[i].Name
        /\ \A j \in 1..(i - 1) : args[j].Name # args[i].Name
        /\ ParseCases(evtID)[k].type = args[i].Value.type

\* C35: ParseArgs never fails: it returns the nil error for every event.
\* Every argument whose value is a trace.Pointer, whatever the identifier of
\* the event, gets the string "0x" followed by the lower-case hexadecimal
\* digits of the pointer. An argument the switch selects is changed only
\* when its value has the asserted dynamic type. Every other argument, the
\* number of arguments and their order are as they were.
C35_ParseArgsBestEffort ==
    ParseArgsCalled =>
        LET before == parsed.event.Args
            after == parsed.r.event.Args
        IN  /\ parsed.r.err = NoError
            /\ parsed.r.event.EventID = parsed.event.EventID
            /\ Len(after) = Len(before)
            /\ \A i \in 1..Len(before) :
                   /\ after[i].Name = before[i].Name
                   /\ IF before[i].Value.type = "Pointer"
                      THEN /\ after[i].Type = before[i].Type
                           /\ after[i].Value.type = "string"
                           /\ DOMAIN after[i].Value = {"type", "v"}
                           /\ IsHexOf(after[i].Value.v, before[i].Value.v)
                      ELSE after[i] # before[i] =>
                               SelectedAsTyped(parsed.event.EventID,
                                               before, i)

\* An event of the identifier MemProtAlert with a pointer named as the
\* switch asks and an argument of the asserted type: the first is written in
\* hexadecimal and the second is parsed.
C35_Witness ==
    /\ ParseArgsCalled
    /\ parsed.event.EventID = "MemProtAlert"
    /\ Len(parsed.event.Args) = 2
    /\ parsed.event.Args[1] =
           Argument("alert", "void*", TypedValue("Pointer", 2147483647))
    /\ parsed.r.event.Args[1].Value
           = StringValue(<<"0", "x", "7", "f", "f", "f", "f", "f", "f", "f">>)
    /\ parsed.event.Args[2].Value = TypedValue("int32", 3)
    /\ parsed.r.event.Args[2].Type = "string"

\* An argument the switch selects, of another type than the asserted one,
\* is left as it is although the parse functions rewrite.
C35_WitnessOtherType ==
    /\ ParseArgsCalled
    /\ parsed.effect = "rewrites"
    /\ parsed.event.EventID = "Ptrace"
    /\ Len(parsed.event.Args) = 1
    /\ parsed.event.Args[1].Value = TypedValue("int32", 4)
    /\ parsed.r.event.Args = parsed.event.Args

\* --------------------------------------------- the claims: NormalizeTimeArgs

NormalizeCalled == parsed.op = "NormalizeTimeArgs"

\* The name j of the call cannot be processed: no argument has it, or the
\* one GetArg finds holds a value that is neither nil nor a uint64.
Failing(j) ==
    LET k == GetArg(parsed.args, parsed.timeArgNames[j])
    IN  \/ k = 0
        \/ /\ parsed.args[k].Value # NilValue
           /\ parsed.args[k].Value.type # "uint64"

\* The first name that cannot be processed, and the number of names plus 1
\* when there is none.
FirstFailing ==
    IF \E j \in DOMAIN parsed.timeArgNames : Failing(j)
    THEN CHOOSE j \in DOMAIN parsed.timeArgNames :
             Failing(j) /\ \A h \in 1..(j - 1) : ~Failing(h)
    ELSE Len(parsed.timeArgNames) + 1

\* How many of the names before the first failing one name the argument i.
TimesNamed(i) ==
    Cardinality({j \in 1..(FirstFailing - 1) :
                     GetArg(parsed.args, parsed.timeArgNames[j]) = i})

RECURSIVE Converted(_, _)
\* The time ns converted n times to the nanoseconds of the epoch.
Converted(ns, n) == IF n = 0 THEN ns ELSE BootToEpochNS(Converted(ns, n - 1))

C36_WitnessNil ==
    /\ NormalizeCalled
    /\ parsed.timeArgNames = <<"start_time", "exit_time">>
    /\ Len(parsed.args) = 2
    /\ parsed.args[1] = Argument("start_time", "unsigned long", NilValue)
    /\ parsed.args[2].Value = TypedValue("uint64", 7)
    /\ parsed.r.err = NoError
    /\ parsed.r.args[1] = parsed.args[1]
    /\ parsed.r.args[2].Value = TypedValue("uint64", 1007)

\* ============================================================== RunningTracee
\*
\* A RunningTracee made by NewRunningTracee, the goroutine that calls Start
\* and Stop on it, the goroutines imReady spawns, and the readers of the
\* channels Start returned. A channel is the number of the make call that
\* made it, and 0 is the nil channel. runner.start is the Start call in
\* progress, runner.returned what the Start calls returned, runner.senders
\* the goroutines spawned, runner.received what the readers received from
\* each channel.

MaxStarts == 2

TraceeStatuses ==
    {"TraceeStarted", "TraceeFailed", "TraceeTimedout", "TraceeAlreadyRunning"}

\* NewRunningTracee(givenCtx, cmdLine).
NewRunningTracee ==
    [pid |-> 0, isReady |-> 0, cancelled |-> FALSE, made |-> 0,
     start |-> [pc |-> "idle", err |-> NoError],
     returned |-> <<>>, senders |-> <<>>,
     received |-> [c \in 1..MaxStarts |-> <<>>],
     stop |-> NotCalled]

\* imReady(s) in the Start call number k: the goroutine is spawned and has
\* not run yet.
imReady(r, k, s) ==
    [r EXCEPT !.senders = Append(@, [call |-> k, s |-> s, pc |-> "spawned",
                                     ch |-> 0])]

\* The number of the Start call in progress.
ThisCall(r) == Len(r.returned) + 1

RunnerInit ==
    /\ DeriveIdle
    /\ DecoderIdle
    /\ sequence = NotCalled
    /\ assembly = NotCalled
    /\ built = NotCalled
    /\ conc = NotCalled
    /\ steps = NotCalled
    /\ parsed = NotCalled
    /\ runner = NewRunningTracee

RunnerOthers ==
    UNCHANGED <<deriveVars, decoderVars, sequence, assembly, built, conc,
                steps, parsed>>

\* r.Start(timeout) is called: r.isReady = make(chan TraceeStatus).
StartEnter ==
    /\ runner.start.pc = "idle"
    /\ Len(runner.returned) < MaxStarts
    /\ runner' = [runner EXCEPT !.made = @ + 1, !.isReady = runner.made + 1,
                                !.start = [pc |-> "entered", err |-> NoError]]
    /\ RunnerOthers

\* isTraceeAlreadyRunning() returns true.
StartAlreadyRunning ==
    /\ runner.start.pc = "entered"
    /\ runner' = [imReady(runner, ThisCall(runner), "TraceeAlreadyRunning")
                     EXCEPT !.start.pc = "exit"]
    /\ RunnerOthers

\* ExecCmdBgWithSudoAndCtx returns: the process identifier, or an error.
StartLaunch ==
    /\ runner.start.pc = "entered"
    /\ \E launched \in BOOLEAN :
           runner' =
               IF launched
               THEN [runner EXCEPT !.pid = 4242, !.start.pc = "poll"]
               ELSE [imReady(runner, ThisCall(runner), "TraceeFailed")
                        EXCEPT !.start.pc = "exit",
                               !.start.err = RuleError("exec")]
    /\ RunnerOthers

\* One turn of the loop: after the sleep IsReady() answers, and the timeout
\* has passed or not.
StartPoll ==
    /\ runner.start.pc = "poll"
    /\ \E ready \in BOOLEAN, late \in BOOLEAN :
           runner' =
               IF ready
               THEN [imReady(runner, ThisCall(runner), "TraceeStarted")
                        EXCEPT !.start.pc = "exit"]
               ELSE IF late
               THEN [imReady(runner, ThisCall(runner), "TraceeTimedout")
                        EXCEPT !.start.pc = "exit"]
               ELSE runner
    /\ RunnerOthers

\* exit: return r.isReady, err.
StartReturn ==
    /\ runner.start.pc = "exit"
    /\ runner' = [runner EXCEPT
                    !.returned = Append(@, [ch |-> runner.isReady,
                                            err |-> runner.start.err]),
                    !.start.pc = "idle"]
    /\ RunnerOthers

\* A goroutine imReady spawned runs: it reads r.isReady and blocks in the
\* send on that channel.
SenderRun ==
    \E g \in DOMAIN runner.senders :
        /\ runner.senders[g].pc = "spawned"
        /\ runner' = [runner EXCEPT !.senders[g].pc = "sending",
                                    !.senders[g].ch = runner.isReady]
        /\ RunnerOthers

\* The reader of a channel Start returned receives from a goroutine that is
\* blocked in the send on it.
Receive ==
    \E g \in DOMAIN runner.senders :
        /\ runner.senders[g].pc = "sending"
        /\ \E k \in DOMAIN runner.returned :
               runner.returned[k].ch = runner.senders[g].ch
        /\ runner' = [runner EXCEPT
                        !.senders[g].pc = "done",
                        !.received[runner.senders[g].ch] =
                            Append(@, runner.senders[g].s)]
        /\ RunnerOthers

\* r.Stop(), while no Start call is in progress.
StopCall ==
    /\ runner.start.pc = "idle"
    /\ runner' =
           IF runner.pid = 0
           THEN [runner EXCEPT !.stop = [op |-> "Stop", pid |-> 0,
                                         ret |-> "nil"]]
           ELSE [runner EXCEPT !.cancelled = TRUE,
                               !.stop = [op |-> "Stop", pid |-> runner.pid,
                                         ret |-> "errs"]]
    /\ RunnerOthers

RunnerNext ==
    \/ StartEnter
    \/ StartAlreadyRunning
    \/ StartLaunch
    \/ StartPoll
    \/ StartReturn
    \/ SenderRun
    \/ Receive
    \/ StopCall

SpecRunner == RunnerInit /\ [][RunnerNext]_vars

\* ------------------------------------------------- the claims: RunningTracee

\* The goroutines the Start call number k spawned.
SendersOf(k) ==
    {g \in DOMAIN runner.senders : runner.senders[g].call = k}

\* The goroutines that offer or have delivered a value on the channel c.
OfferedOn(c) ==
    {g \in DOMAIN runner.senders :
        runner.senders[g].pc # "spawned" /\ runner.senders[g].ch = c}

\* C37: Start publishes exactly one readiness status per call. On every
\* path exactly one of the four statuses is offered on the channel the call
\* returned, by a goroutine that stays blocked until a reader receives it,
\* and Start returns without waiting for the reader. Stop returns nil
\* without cancelling when the process identifier is 0.
C37_OneStatusPerCall ==
    /\ \A k \in DOMAIN runner.returned :
           /\ Cardinality(SendersOf(k)) = 1
           /\ \A g \in SendersOf(k) :
                  /\ runner.senders[g].s \in TraceeStatuses
                  /\ runner.senders[g].pc # "spawned" =>
                         runner.senders[g].ch = runner.returned[k].ch
           /\ Cardinality(OfferedOn(runner.returned[k].ch)) <= 1
           /\ Len(runner.received[runner.returned[k].ch]) <= 1
    /\ \A g \in DOMAIN runner.senders :
           runner.senders[g].pc = "done" =>
               runner.received[runner.senders[g].ch] = <<runner.senders[g].s>>
    /\ runner.stop # NotCalled /\ runner.stop.pid = 0 =>
           runner.stop.ret = "nil" /\ ~runner.cancelled

\* The Start call of a RunningTracee that was not started before has
\* returned while its status is still on offer on the channel it returned;
\* nothing has been received.
C37_Witness ==
    /\ Len(runner.returned) = 1
    /\ runner.start.pc = "idle"
    /\ runner.returned[1].ch = 1
    /\ SendersOf(1) = {1}
    /\ runner.senders[1].pc = "sending"
    /\ runner.senders[1].ch = 1
    /\ runner.senders[1].s = "TraceeTimedout"
    /\ runner.received[1] = <<>>

====
